---------------------------- MODULE Spec2Model ----------------------------
(***************************************************************************)
(* A model of the marching-cubes mesher of my-lib (src/my-lib/src/mesh.rs): *)
(* the lattice built for one chunk, the safe lattice accessors, the edge   *)
(* interpolation, the gradient normals, and generate_mesh, which walks the *)
(* lattice meshlet by meshlet and packs the Chunk buffers.                 *)
(*                                                                         *)
(* Numbers.  An f32 density is an integer count of 1e-6 (so 1.0 is One and *)
(* the guard 0.00001 of the interpolation is EPS = 10).  An f32 position   *)
(* or normal component is an integer count of 1/Q.  A packed RGBA colour   *)
(* 0xAABBGGRR is the tuple <<AA, BB, GG, RR>>.  u32 and i32 values are     *)
(* integers.                                                               *)
(***************************************************************************)
EXTENDS Integers, Sequences, FiniteSets, TLC

(***************************************************************************)
(* Lookup tables (mesh.rs 5-180), copied entry for entry.                  *)
(***************************************************************************)
EDGE_TABLE_DATA ==
    << 
       0, 265, 515, 778, 1030, 1295, 1541, 1804, 2060, 2309, 2575, 2822, 3082, 3331, 3593, 3840,
       400, 153, 915, 666, 1430, 1183, 1941, 1692, 2460, 2197, 2975, 2710, 3482, 3219, 3993, 3728,
       560, 825, 51, 314, 1590, 1855, 1077, 1340, 2620, 2869, 2111, 2358, 3642, 3891, 3129, 3376,
       928, 681, 419, 170, 1958, 1711, 1445, 1196, 2988, 2725, 2479, 2214, 4010, 3747, 3497, 3232,
       1120, 1385, 1635, 1898, 102, 367, 613, 876, 3180, 3429, 3695, 3942, 2154, 2403, 2665, 2912,
       1520, 1273, 2035, 1786, 502, 255, 1013, 764, 3580, 3317, 4095, 3830, 2554, 2291, 3065, 2800,
       1616, 1881, 1107, 1370, 598, 863, 85, 348, 3676, 3925, 3167, 3414, 2650, 2899, 2137, 2384,
       1984, 1737, 1475, 1226, 966, 719, 453, 204, 4044, 3781, 3535, 3270, 3018, 2755, 2505, 2240,
       2240, 2505, 2755, 3018, 3270, 3535, 3781, 4044, 204, 453, 719, 966, 1226, 1475, 1737, 1984,
       2384, 2137, 2899, 2650, 3414, 3167, 3925, 3676, 348, 85, 863, 598, 1370, 1107, 1881, 1616,
       2800, 3065, 2291, 2554, 3830, 4095, 3317, 3580, 764, 1013, 255, 502, 1786, 2035, 1273, 1520,
       2912, 2665, 2403, 2154, 3942, 3695, 3429, 3180, 876, 613, 367, 102, 1898, 1635, 1385, 1120,
       3232, 3497, 3747, 4010, 2214, 2479, 2725, 2988, 1196, 1445, 1711, 1958, 170, 419, 681, 928,
       3376, 3129, 3891, 3642, 2358, 2111, 2869, 2620, 1340, 1077, 1855, 1590, 314, 51, 825, 560,
       3728, 3993, 3219, 3482, 2710, 2975, 2197, 2460, 1692, 1941, 1183, 1430, 666, 915, 153, 400,
       3840, 3593, 3331, 3082, 2822, 2575, 2309, 2060, 1804, 1541, 1295, 1030, 778, 515, 265, 0
    >>

TRIANGLE_TABLE_DATA ==
    << 
       -1, -1, -1, -1, -1, -1, -1, -1, -1, -1, -1, -1, -1, -1, -1, -1,
       0, 8, 3, -1, -1, -1, -1, -1, -1, -1, -1, -1, -1, -1, -1, -1,
       0, 1, 9, -1, -1, -1, -1, -1, -1, -1, -1, -1, -1, -1, -1, -1,
       1, 8, 3, 9, 8, 1, -1, -1, -1, -1, -1, -1, -1, -1, -1, -1,
       1, 2, 10, -1, -1, -1, -1, -1, -1, -1, -1, -1, -1, -1, -1, -1,
       0, 8, 3, 1, 2, 10, -1, -1, -1, -1, -1, -1, -1, -1, -1, -1,
       9, 2, 10, 0, 2, 9, -1, -1, -1, -1, -1, -1, -1, -1, -1, -1,
       2, 8, 3, 2, 10, 8, 10, 9, 8, -1, -1, -1, -1, -1, -1, -1,
       3, 11, 2, -1, -1, -1, -1, -1, -1, -1, -1, -1, -1, -1, -1, -1,
       0, 11, 2, 8, 11, 0, -1, -1, -1, -1, -1, -1, -1, -1, -1, -1,
       1, 9, 0, 2, 3, 11, -1, -1, -1, -1, -1, -1, -1, -1, -1, -1,
       1, 11, 2, 1, 9, 11, 9, 8, 11, -1, -1, -1, -1, -1, -1, -1,
       3, 10, 1, 11, 10, 3, -1, -1, -1, -1, -1, -1, -1, -1, -1, -1,
       0, 10, 1, 0, 8, 10, 8, 11, 10, -1, -1, -1, -1, -1, -1, -1,
       3, 9, 0, 3, 11, 9, 11, 10, 9, -1, -1, -1, -1, -1, -1, -1,
       9, 8, 10, 10, 8, 11, -1, -1, -1, -1, -1, -1, -1, -1, -1, -1,
       4, 7, 8, -1, -1, -1, -1, -1, -1, -1, -1, -1, -1, -1, -1, -1,
       4, 3, 0, 7, 3, 4, -1, -1, -1, -1, -1, -1, -1, -1, -1, -1,
       0, 1, 9, 8, 4, 7, -1, -1, -1, -1, -1, -1, -1, -1, -1, -1,
       4, 1, 9, 4, 7, 1, 7, 3, 1, -1, -1, -1, -1, -1, -1, -1,
       1, 2, 10, 8, 4, 7, -1, -1, -1, -1, -1, -1, -1, -1, -1, -1,
       3, 4, 7, 3, 0, 4, 1, 2, 10, -1, -1, -1, -1, -1, -1, -1,
       9, 2, 10, 9, 0, 2, 8, 4, 7, -1, -1, -1, -1, -1, -1, -1,
       2, 10, 9, 2, 9, 7, 2, 7, 3, 7, 9, 4, -1, -1, -1, -1,
       8, 4, 7, 3, 11, 2, -1, -1, -1, -1, -1, -1, -1, -1, -1, -1,
       11, 4, 7, 11, 2, 4, 2, 0, 4, -1, -1, -1, -1, -1, -1, -1,
       9, 0, 1, 8, 4, 7, 2, 3, 11, -1, -1, -1, -1, -1, -1, -1,
       4, 7, 11, 9, 4, 11, 9, 11, 2, 9, 2, 1, -1, -1, -1, -1,
       3, 10, 1, 3, 11, 10, 7, 8, 4, -1, -1, -1, -1, -1, -1, -1,
       1, 11, 10, 1, 4, 11, 1, 0, 4, 7, 11, 4, -1, -1, -1, -1,
       4, 7, 8, 9, 0, 11, 9, 11, 10, 11, 0, 3, -1, -1, -1, -1,
       4, 7, 11, 4, 11, 9, 9, 11, 10, -1, -1, -1, -1, -1, -1, -1,
       9, 5, 4, -1, -1, -1, -1, -1, -1, -1, -1, -1, -1, -1, -1, -1,
       9, 5, 4, 0, 8, 3, -1, -1, -1, -1, -1, -1, -1, -1, -1, -1,
       0, 5, 4, 1, 5, 0, -1, -1, -1, -1, -1, -1, -1, -1, -1, -1,
       8, 5, 4, 8, 3, 5, 3, 1, 5, -1, -1, -1, -1, -1, -1, -1,
       1, 2, 10, 9, 5, 4, -1, -1, -1, -1, -1, -1, -1, -1, -1, -1,
       3, 0, 8, 1, 2, 10, 4, 9, 5, -1, -1, -1, -1, -1, -1, -1,
       5, 2, 10, 5, 4, 2, 4, 0, 2, -1, -1, -1, -1, -1, -1, -1,
       2, 10, 5, 3, 2, 5, 3, 5, 4, 3, 4, 8, -1, -1, -1, -1,
       9, 5, 4, 2, 3, 11, -1, -1, -1, -1, -1, -1, -1, -1, -1, -1,
       0, 11, 2, 0, 8, 11, 4, 9, 5, -1, -1, -1, -1, -1, -1, -1,
       0, 5, 4, 0, 1, 5, 2, 3, 11, -1, -1, -1, -1, -1, -1, -1,
       2, 1, 5, 2, 5, 8, 2, 8, 11, 4, 8, 5, -1, -1, -1, -1,
       10, 3, 11, 10, 1, 3, 9, 5, 4, -1, -1, -1, -1, -1, -1, -1,
       4, 9, 5, 0, 8, 1, 8, 10, 1, 8, 11, 10, -1, -1, -1, -1,
       5, 4, 0, 5, 0, 11, 5, 11, 10, 11, 0, 3, -1, -1, -1, -1,
       5, 4, 8, 5, 8, 10, 10, 8, 11, -1, -1, -1, -1, -1, -1, -1,
       9, 7, 8, 5, 7, 9, -1, -1, -1, -1, -1, -1, -1, -1, -1, -1,
       9, 3, 0, 9, 5, 3, 5, 7, 3, -1, -1, -1, -1, -1, -1, -1,
       0, 7, 8, 0, 1, 7, 1, 5, 7, -1, -1, -1, -1, -1, -1, -1,
       1, 5, 3, 3, 5, 7, -1, -1, -1, -1, -1, -1, -1, -1, -1, -1,
       9, 7, 8, 9, 5, 7, 10, 1, 2, -1, -1, -1, -1, -1, -1, -1,
       10, 1, 2, 9, 5, 0, 5, 3, 0, 5, 7, 3, -1, -1, -1, -1,
       8, 0, 2, 8, 2, 5, 8, 5, 7, 10, 5, 2, -1, -1, -1, -1,
       2, 10, 5, 2, 5, 3, 3, 5, 7, -1, -1, -1, -1, -1, -1, -1,
       7, 9, 5, 7, 8, 9, 3, 11, 2, -1, -1, -1, -1, -1, -1, -1,
       9, 5, 7, 9, 7, 2, 9, 2, 0, 2, 7, 11, -1, -1, -1, -1,
       2, 3, 11, 0, 1, 8, 1, 7, 8, 1, 5, 7, -1, -1, -1, -1,
       11, 2, 1, 11, 1, 7, 7, 1, 5, -1, -1, -1, -1, -1, -1, -1,
       9, 5, 8, 8, 5, 7, 10, 1, 3, 10, 3, 11, -1, -1, -1, -1,
       5, 7, 0, 5, 0, 9, 7, 11, 0, 1, 0, 10, 11, 10, 0, -1,
       11, 10, 0, 11, 0, 3, 10, 5, 0, 8, 0, 7, 5, 7, 0, -1,
       11, 10, 5, 7, 11, 5, -1, -1, -1, -1, -1, -1, -1, -1, -1, -1,
       10, 6, 5, -1, -1, -1, -1, -1, -1, -1, -1, -1, -1, -1, -1, -1,
       0, 8, 3, 5, 10, 6, -1, -1, -1, -1, -1, -1, -1, -1, -1, -1,
       9, 0, 1, 5, 10, 6, -1, -1, -1, -1, -1, -1, -1, -1, -1, -1,
       1, 8, 3, 1, 9, 8, 5, 10, 6, -1, -1, -1, -1, -1, -1, -1,
       1, 6, 5, 2, 6, 1, -1, -1, -1, -1, -1, -1, -1, -1, -1, -1,
       1, 6, 5, 1, 2, 6, 3, 0, 8, -1, -1, -1, -1, -1, -1, -1,
       9, 6, 5, 9, 0, 6, 0, 2, 6, -1, -1, -1, -1, -1, -1, -1,
       5, 9, 8, 5, 8, 2, 5, 2, 6, 3, 2, 8, -1, -1, -1, -1,
       2, 3, 11, 10, 6, 5, -1, -1, -1, -1, -1, -1, -1, -1, -1, -1,
       11, 0, 8, 11, 2, 0, 10, 6, 5, -1, -1, -1, -1, -1, -1, -1,
       0, 1, 9, 2, 3, 11, 5, 10, 6, -1, -1, -1, -1, -1, -1, -1,
       5, 10, 6, 1, 9, 2, 9, 11, 2, 9, 8, 11, -1, -1, -1, -1,
       6, 3, 11, 6, 5, 3, 5, 1, 3, -1, -1, -1, -1, -1, -1, -1,
       0, 8, 11, 0, 11, 5, 0, 5, 1, 5, 11, 6, -1, -1, -1, -1,
       3, 11, 6, 0, 3, 6, 0, 6, 5, 0, 5, 9, -1, -1, -1, -1,
       6, 5, 9, 6, 9, 11, 11, 9, 8, -1, -1, -1, -1, -1, -1, -1,
       5, 10, 6, 4, 7, 8, -1, -1, -1, -1, -1, -1, -1, -1, -1, -1,
       4, 3, 0, 4, 7, 3, 6, 5, 10, -1, -1, -1, -1, -1, -1, -1,
       1, 9, 0, 5, 10, 6, 8, 4, 7, -1, -1, -1, -1, -1, -1, -1,
       10, 6, 5, 1, 9, 7, 1, 7, 3, 7, 9, 4, -1, -1, -1, -1,
       6, 1, 2, 6, 5, 1, 4, 7, 8, -1, -1, -1, -1, -1, -1, -1,
       1, 2, 5, 5, 2, 6, 3, 0, 4, 3, 4, 7, -1, -1, -1, -1,
       8, 4, 7, 9, 0, 5, 0, 6, 5, 0, 2, 6, -1, -1, -1, -1,
       7, 3, 9, 7, 9, 4, 3, 2, 9, 5, 9, 6, 2, 6, 9, -1,
       3, 11, 2, 7, 8, 4, 10, 6, 5, -1, -1, -1, -1, -1, -1, -1,
       5, 10, 6, 4, 7, 2, 4, 2, 0, 2, 7, 11, -1, -1, -1, -1,
       0, 1, 9, 4, 7, 8, 2, 3, 11, 5, 10, 6, -1, -1, -1, -1,
       9, 2, 1, 9, 11, 2, 9, 4, 11, 7, 11, 4, 5, 10, 6, -1,
       8, 4, 7, 3, 11, 5, 3, 5, 1, 5, 11, 6, -1, -1, -1, -1,
       5, 1, 11, 5, 11, 6, 1, 0, 11, 7, 11, 4, 0, 4, 11, -1,
       0, 5, 9, 0, 6, 5, 0, 3, 6, 11, 6, 3, 8, 4, 7, -1,
       6, 5, 9, 6, 9, 11, 4, 7, 9, 7, 11, 9, -1, -1, -1, -1,
       10, 4, 9, 6, 4, 10, -1, -1, -1, -1, -1, -1, -1, -1, -1, -1,
       4, 10, 6, 4, 9, 10, 0, 8, 3, -1, -1, -1, -1, -1, -1, -1,
       10, 0, 1, 10, 6, 0, 6, 4, 0, -1, -1, -1, -1, -1, -1, -1,
       8, 3, 1, 8, 1, 6, 8, 6, 4, 6, 1, 10, -1, -1, -1, -1,
       1, 4, 9, 1, 2, 4, 2, 6, 4, -1, -1, -1, -1, -1, -1, -1,
       3, 0, 8, 1, 2, 9, 2, 4, 9, 2, 6, 4, -1, -1, -1, -1,
       0, 2, 4, 4, 2, 6, -1, -1, -1, -1, -1, -1, -1, -1, -1, -1,
       8, 3, 2, 8, 2, 4, 4, 2, 6, -1, -1, -1, -1, -1, -1, -1,
       10, 4, 9, 10, 6, 4, 11, 2, 3, -1, -1, -1, -1, -1, -1, -1,
       0, 8, 2, 2, 8, 11, 4, 9, 10, 4, 10, 6, -1, -1, -1, -1,
       3, 11, 2, 0, 1, 6, 0, 6, 4, 6, 1, 10, -1, -1, -1, -1,
       6, 4, 1, 6, 1, 10, 4, 8, 1, 2, 1, 11, 8, 11, 1, -1,
       9, 6, 4, 9, 3, 6, 9, 1, 3, 11, 6, 3, -1, -1, -1, -1,
       8, 11, 1, 8, 1, 0, 11, 6, 1, 9, 1, 4, 6, 4, 1, -1,
       3, 11, 6, 3, 6, 0, 0, 6, 4, -1, -1, -1, -1, -1, -1, -1,
       6, 4, 8, 11, 6, 8, -1, -1, -1, -1, -1, -1, -1, -1, -1, -1,
       7, 10, 6, 7, 8, 10, 8, 9, 10, -1, -1, -1, -1, -1, -1, -1,
       0, 7, 3, 0, 10, 7, 0, 9, 10, 6, 7, 10, -1, -1, -1, -1,
       10, 6, 7, 1, 10, 7, 1, 7, 8, 1, 8, 0, -1, -1, -1, -1,
       10, 6, 7, 10, 7, 1, 1, 7, 3, -1, -1, -1, -1, -1, -1, -1,
       1, 2, 6, 1, 6, 8, 1, 8, 9, 8, 6, 7, -1, -1, -1, -1,
       2, 6, 9, 2, 9, 1, 6, 7, 9, 0, 9, 3, 7, 3, 9, -1,
       7, 8, 0, 7, 0, 6, 6, 0, 2, -1, -1, -1, -1, -1, -1, -1,
       7, 3, 2, 6, 7, 2, -1, -1, -1, -1, -1, -1, -1, -1, -1, -1,
       2, 3, 11, 10, 6, 8, 10, 8, 9, 8, 6, 7, -1, -1, -1, -1,
       2, 0, 7, 2, 7, 11, 0, 9, 7, 6, 7, 10, 9, 10, 7, -1,
       1, 8, 0, 1, 7, 8, 1, 10, 7, 6, 7, 10, 2, 3, 11, -1,
       11, 2, 1, 11, 1, 7, 10, 6, 1, 6, 7, 1, -1, -1, -1, -1,
       8, 9, 6, 8, 6, 7, 9, 1, 6, 11, 6, 3, 1, 3, 6, -1,
       0, 9, 1, 11, 6, 7, -1, -1, -1, -1, -1, -1, -1, -1, -1, -1,
       7, 8, 0, 7, 0, 6, 3, 11, 0, 11, 6, 0, -1, -1, -1, -1,
       7, 11, 6, -1, -1, -1, -1, -1, -1, -1, -1, -1, -1, -1, -1, -1,
       7, 6, 11, -1, -1, -1, -1, -1, -1, -1, -1, -1, -1, -1, -1, -1,
       3, 0, 8, 11, 7, 6, -1, -1, -1, -1, -1, -1, -1, -1, -1, -1,
       0, 1, 9, 11, 7, 6, -1, -1, -1, -1, -1, -1, -1, -1, -1, -1,
       8, 1, 9, 8, 3, 1, 11, 7, 6, -1, -1, -1, -1, -1, -1, -1,
       10, 1, 2, 6, 11, 7, -1, -1, -1, -1, -1, -1, -1, -1, -1, -1,
       1, 2, 10, 3, 0, 8, 6, 11, 7, -1, -1, -1, -1, -1, -1, -1,
       2, 9, 0, 2, 10, 9, 6, 11, 7, -1, -1, -1, -1, -1, -1, -1,
       6, 11, 7, 2, 10, 3, 10, 8, 3, 10, 9, 8, -1, -1, -1, -1,
       7, 2, 3, 6, 2, 7, -1, -1, -1, -1, -1, -1, -1, -1, -1, -1,
       7, 0, 8, 7, 6, 0, 6, 2, 0, -1, -1, -1, -1, -1, -1, -1,
       2, 7, 6, 2, 3, 7, 0, 1, 9, -1, -1, -1, -1, -1, -1, -1,
       1, 6, 2, 1, 8, 6, 1, 9, 8, 8, 7, 6, -1, -1, -1, -1,
       10, 7, 6, 10, 1, 7, 1, 3, 7, -1, -1, -1, -1, -1, -1, -1,
       10, 7, 6, 1, 7, 10, 1, 8, 7, 1, 0, 8, -1, -1, -1, -1,
       0, 3, 7, 0, 7, 10, 0, 10, 9, 6, 10, 7, -1, -1, -1, -1,
       7, 6, 10, 7, 10, 8, 8, 10, 9, -1, -1, -1, -1, -1, -1, -1,
       6, 8, 4, 11, 8, 6, -1, -1, -1, -1, -1, -1, -1, -1, -1, -1,
       3, 6, 11, 3, 0, 6, 0, 4, 6, -1, -1, -1, -1, -1, -1, -1,
       8, 6, 11, 8, 4, 6, 9, 0, 1, -1, -1, -1, -1, -1, -1, -1,
       9, 4, 6, 9, 6, 3, 9, 3, 1, 11, 3, 6, -1, -1, -1, -1,
       6, 8, 4, 6, 11, 8, 2, 10, 1, -1, -1, -1, -1, -1, -1, -1,
       1, 2, 10, 3, 0, 11, 0, 6, 11, 0, 4, 6, -1, -1, -1, -1,
       4, 11, 8, 4, 6, 11, 0, 2, 9, 2, 10, 9, -1, -1, -1, -1,
       10, 9, 3, 10, 3, 2, 9, 4, 3, 11, 3, 6, 4, 6, 3, -1,
       8, 2, 3, 8, 4, 2, 4, 6, 2, -1, -1, -1, -1, -1, -1, -1,
       0, 4, 2, 4, 6, 2, -1, -1, -1, -1, -1, -1, -1, -1, -1, -1,
       1, 9, 0, 2, 3, 4, 2, 4, 6, 4, 3, 8, -1, -1, -1, -1,
       1, 9, 4, 1, 4, 2, 2, 4, 6, -1, -1, -1, -1, -1, -1, -1,
       8, 1, 3, 8, 6, 1, 8, 4, 6, 6, 10, 1, -1, -1, -1, -1,
       10, 1, 0, 10, 0, 6, 6, 0, 4, -1, -1, -1, -1, -1, -1, -1,
       4, 6, 3, 4, 3, 8, 6, 10, 3, 0, 3, 9, 10, 9, 3, -1,
       10, 9, 4, 6, 10, 4, -1, -1, -1, -1, -1, -1, -1, -1, -1, -1,
       4, 9, 5, 7, 6, 11, -1, -1, -1, -1, -1, -1, -1, -1, -1, -1,
       0, 8, 3, 4, 9, 5, 11, 7, 6, -1, -1, -1, -1, -1, -1, -1,
       5, 0, 1, 5, 4, 0, 7, 6, 11, -1, -1, -1, -1, -1, -1, -1,
       11, 7, 6, 8, 3, 4, 3, 5, 4, 3, 1, 5, -1, -1, -1, -1,
       9, 5, 4, 10, 1, 2, 7, 6, 11, -1, -1, -1, -1, -1, -1, -1,
       6, 11, 7, 1, 2, 10, 0, 8, 3, 4, 9, 5, -1, -1, -1, -1,
       7, 6, 11, 5, 4, 10, 4, 2, 10, 4, 0, 2, -1, -1, -1, -1,
       3, 4, 8, 3, 5, 4, 3, 2, 5, 10, 5, 2, 11, 7, 6, -1,
       7, 2, 3, 7, 6, 2, 5, 4, 9, -1, -1, -1, -1, -1, -1, -1,
       9, 5, 4, 0, 8, 6, 0, 6, 2, 6, 8, 7, -1, -1, -1, -1,
       3, 6, 2, 3, 7, 6, 1, 5, 0, 5, 4, 0, -1, -1, -1, -1,
       6, 2, 8, 6, 8, 7, 2, 1, 8, 4, 8, 5, 1, 5, 8, -1,
       9, 5, 4, 10, 1, 6, 1, 7, 6, 1, 3, 7, -1, -1, -1, -1,
       1, 6, 10, 1, 7, 6, 1, 0, 7, 8, 7, 0, 9, 5, 4, -1,
       4, 0, 10, 4, 10, 5, 0, 3, 10, 6, 10, 7, 3, 7, 10, -1,
       7, 6, 10, 7, 10, 8, 5, 4, 10, 4, 8, 10, -1, -1, -1, -1,
       6, 9, 5, 6, 11, 9, 11, 8, 9, -1, -1, -1, -1, -1, -1, -1,
       3, 6, 11, 0, 6, 3, 0, 5, 6, 0, 9, 5, -1, -1, -1, -1,
       0, 11, 8, 0, 5, 11, 0, 1, 5, 5, 6, 11, -1, -1, -1, -1,
       6, 11, 3, 6, 3, 5, 5, 3, 1, -1, -1, -1, -1, -1, -1, -1,
       1, 2, 10, 9, 5, 11, 9, 11, 8, 11, 5, 6, -1, -1, -1, -1,
       0, 11, 3, 0, 6, 11, 0, 9, 6, 5, 6, 9, 1, 2, 10, -1,
       11, 8, 5, 11, 5, 6, 8, 0, 5, 10, 5, 2, 0, 2, 5, -1,
       6, 11, 3, 6, 3, 5, 2, 10, 3, 10, 5, 3, -1, -1, -1, -1,
       5, 8, 9, 5, 2, 8, 5, 6, 2, 3, 8, 2, -1, -1, -1, -1,
       9, 5, 6, 9, 6, 0, 0, 6, 2, -1, -1, -1, -1, -1, -1, -1,
       1, 5, 8, 1, 8, 0, 5, 6, 8, 3, 8, 2, 6, 2, 8, -1,
       1, 5, 6, 2, 1, 6, -1, -1, -1, -1, -1, -1, -1, -1, -1, -1,
       1, 3, 6, 1, 6, 10, 3, 8, 6, 5, 6, 9, 8, 9, 6, -1,
       10, 1, 0, 10, 0, 6, 9, 5, 0, 5, 6, 0, -1, -1, -1, -1,
       0, 3, 8, 5, 6, 10, -1, -1, -1, -1, -1, -1, -1, -1, -1, -1,
       10, 5, 6, -1, -1, -1, -1, -1, -1, -1, -1, -1, -1, -1, -1, -1,
       11, 5, 10, 7, 5, 11, -1, -1, -1, -1, -1, -1, -1, -1, -1, -1,
       11, 5, 10, 11, 7, 5, 8, 3, 0, -1, -1, -1, -1, -1, -1, -1,
       5, 11, 7, 5, 10, 11, 1, 9, 0, -1, -1, -1, -1, -1, -1, -1,
       10, 7, 5, 10, 11, 7, 9, 8, 1, 8, 3, 1, -1, -1, -1, -1,
       11, 1, 2, 11, 7, 1, 7, 5, 1, -1, -1, -1, -1, -1, -1, -1,
       0, 8, 3, 1, 2, 7, 1, 7, 5, 7, 2, 11, -1, -1, -1, -1,
       9, 7, 5, 9, 2, 7, 9, 0, 2, 2, 11, 7, -1, -1, -1, -1,
       7, 5, 2, 7, 2, 11, 5, 9, 2, 3, 2, 8, 9, 8, 2, -1,
       2, 5, 10, 2, 3, 5, 3, 7, 5, -1, -1, -1, -1, -1, -1, -1,
       8, 2, 0, 8, 5, 2, 8, 7, 5, 10, 2, 5, -1, -1, -1, -1,
       9, 0, 1, 5, 10, 3, 5, 3, 7, 3, 10, 2, -1, -1, -1, -1,
       9, 8, 2, 9, 2, 1, 8, 7, 2, 10, 2, 5, 7, 5, 2, -1,
       1, 3, 5, 3, 7, 5, -1, -1, -1, -1, -1, -1, -1, -1, -1, -1,
       0, 8, 7, 0, 7, 1, 1, 7, 5, -1, -1, -1, -1, -1, -1, -1,
       9, 0, 3, 9, 3, 5, 5, 3, 7, -1, -1, -1, -1, -1, -1, -1,
       9, 8, 7, 5, 9, 7, -1, -1, -1, -1, -1, -1, -1, -1, -1, -1,
       5, 8, 4, 5, 10, 8, 10, 11, 8, -1, -1, -1, -1, -1, -1, -1,
       5, 0, 4, 5, 11, 0, 5, 10, 11, 11, 3, 0, -1, -1, -1, -1,
       0, 1, 9, 8, 4, 10, 8, 10, 11, 10, 4, 5, -1, -1, -1, -1,
       10, 11, 4, 10, 4, 5, 11, 3, 4, 9, 4, 1, 3, 1, 4, -1,
       2, 5, 1, 2, 8, 5, 2, 11, 8, 4, 5, 8, -1, -1, -1, -1,
       0, 4, 11, 0, 11, 3, 4, 5, 11, 2, 11, 1, 5, 1, 11, -1,
       0, 2, 5, 0, 5, 9, 2, 11, 5, 4, 5, 8, 11, 8, 5, -1,
       9, 4, 5, 2, 11, 3, -1, -1, -1, -1, -1, -1, -1, -1, -1, -1,
       2, 5, 10, 3, 5, 2, 3, 4, 5, 3, 8, 4, -1, -1, -1, -1,
       5, 10, 2, 5, 2, 4, 4, 2, 0, -1, -1, -1, -1, -1, -1, -1,
       3, 10, 2, 3, 5, 10, 3, 8, 5, 4, 5, 8, 0, 1, 9, -1,
       5, 10, 2, 5, 2, 4, 1, 9, 2, 9, 4, 2, -1, -1, -1, -1,
       8, 4, 5, 8, 5, 3, 3, 5, 1, -1, -1, -1, -1, -1, -1, -1,
       0, 4, 5, 1, 0, 5, -1, -1, -1, -1, -1, -1, -1, -1, -1, -1,
       8, 4, 5, 8, 5, 3, 9, 0, 5, 0, 3, 5, -1, -1, -1, -1,
       9, 4, 5, -1, -1, -1, -1, -1, -1, -1, -1, -1, -1, -1, -1, -1,
       4, 11, 7, 4, 9, 11, 9, 10, 11, -1, -1, -1, -1, -1, -1, -1,
       0, 8, 3, 4, 9, 7, 9, 11, 7, 9, 10, 11, -1, -1, -1, -1,
       1, 10, 11, 1, 11, 4, 1, 4, 0, 7, 4, 11, -1, -1, -1, -1,
       3, 1, 4, 3, 4, 8, 1, 10, 4, 7, 4, 11, 10, 11, 4, -1,
       4, 11, 7, 9, 11, 4, 9, 2, 11, 9, 1, 2, -1, -1, -1, -1,
       9, 7, 4, 9, 11, 7, 9, 1, 11, 2, 11, 1, 0, 8, 3, -1,
       11, 7, 4, 11, 4, 2, 2, 4, 0, -1, -1, -1, -1, -1, -1, -1,
       11, 7, 4, 11, 4, 2, 8, 3, 4, 3, 2, 4, -1, -1, -1, -1,
       2, 9, 10, 2, 7, 9, 2, 3, 7, 7, 4, 9, -1, -1, -1, -1,
       9, 10, 7, 9, 7, 4, 10, 2, 7, 8, 7, 0, 2, 0, 7, -1,
       3, 7, 10, 3, 10, 2, 7, 4, 10, 1, 10, 0, 4, 0, 10, -1,
       1, 10, 2, 8, 7, 4, -1, -1, -1, -1, -1, -1, -1, -1, -1, -1,
       4, 9, 1, 4, 1, 7, 7, 1, 3, -1, -1, -1, -1, -1, -1, -1,
       4, 9, 1, 4, 1, 7, 0, 8, 1, 8, 7, 1, -1, -1, -1, -1,
       4, 0, 3, 7, 4, 3, -1, -1, -1, -1, -1, -1, -1, -1, -1, -1,
       4, 8, 7, -1, -1, -1, -1, -1, -1, -1, -1, -1, -1, -1, -1, -1,
       9, 10, 8, 10, 11, 8, -1, -1, -1, -1, -1, -1, -1, -1, -1, -1,
       3, 0, 9, 3, 9, 11, 11, 9, 10, -1, -1, -1, -1, -1, -1, -1,
       0, 1, 10, 0, 10, 8, 8, 10, 11, -1, -1, -1, -1, -1, -1, -1,
       3, 1, 10, 11, 3, 10, -1, -1, -1, -1, -1, -1, -1, -1, -1, -1,
       1, 2, 11, 1, 11, 9, 9, 11, 8, -1, -1, -1, -1, -1, -1, -1,
       3, 0, 9, 3, 9, 11, 1, 2, 9, 2, 11, 9, -1, -1, -1, -1,
       0, 2, 11, 8, 0, 11, -1, -1, -1, -1, -1, -1, -1, -1, -1, -1,
       3, 2, 11, -1, -1, -1, -1, -1, -1, -1, -1, -1, -1, -1, -1, -1,
       2, 3, 8, 2, 8, 10, 10, 8, 9, -1, -1, -1, -1, -1, -1, -1,
       9, 10, 2, 0, 9, 2, -1, -1, -1, -1, -1, -1, -1, -1, -1, -1,
       2, 3, 8, 2, 8, 10, 0, 1, 8, 1, 10, 8, -1, -1, -1, -1,
       1, 10, 2, -1, -1, -1, -1, -1, -1, -1, -1, -1, -1, -1, -1, -1,
       1, 3, 8, 9, 1, 8, -1, -1, -1, -1, -1, -1, -1, -1, -1, -1,
       0, 9, 1, -1, -1, -1, -1, -1, -1, -1, -1, -1, -1, -1, -1, -1,
       0, 3, 8, -1, -1, -1, -1, -1, -1, -1, -1, -1, -1, -1, -1, -1,
       -1, -1, -1, -1, -1, -1, -1, -1, -1, -1, -1, -1, -1, -1, -1, -1
    >>

\* CUBE_VERTICES[i] of the source is CUBE_VERTICES[i + 1] here.
CUBE_VERTICES ==
    << <<0, 0, 0>>, <<1, 0, 0>>, <<1, 1, 0>>, <<0, 1, 0>>,
       <<0, 0, 1>>, <<1, 0, 1>>, <<1, 1, 1>>, <<0, 1, 1>> >>

\* The edges with the rows of edge 0 and edge 1 exchanged.
EdgeVerticesExchanged ==
    << <<1, 2>>, <<0, 1>>, <<2, 3>>, <<3, 0>>,
       <<4, 5>>, <<5, 6>>, <<6, 7>>, <<7, 4>>,
       <<0, 4>>, <<1, 5>>, <<2, 6>>, <<3, 7>> >>

\* EDGE_VERTICES[i] of the source is EDGE_VERTICES[i + 1] here.
EDGE_VERTICES ==
    << <<0, 1>>, <<1, 2>>, <<2, 3>>, <<3, 0>>,
       <<4, 5>>, <<5, 6>>, <<6, 7>>, <<7, 4>>,
       <<0, 4>>, <<1, 5>>, <<2, 6>>, <<3, 7>> >>

(***************************************************************************)
(* Program constants and the number representation.                        *)
(***************************************************************************)
\* const COMPRESSION: u32 = 8 (mesh.rs 455): the edge length of a meshlet.
COMPRESSION == 8

\* The guard 0.00001 of the interpolation (mesh.rs 306-312), in units of 1e-6.
EPS == 10

\* The f32 1.0 as a density.
One == 100000 * EPS

\* A position or normal component x is the integer x * Q.
Q == 2 ^ 10

Abs(a) == IF a < 0 THEN -a ELSE a

\* An array whose elements are computed when it is built, not when read.
Array(f) == f \o <<>>

\* What an f32 division by zero yields (an infinity or NaN): no finite value.
NonFinite == 2 ^ 30

\* f32 division, rounded towards zero.
FDiv(a, b) ==
    IF b = 0 THEN NonFinite
    ELSE LET q == Abs(a) \div Abs(b)
         IN  IF (a < 0) = (b < 0) THEN q ELSE -q

\* The i32 product a * b as a build without overflow checks computes it:
\* modulo 2^32, read as a signed value.  For 0 <= b < 2^15, by 16-bit limbs.
WrappingMul(a, b) ==
    LET p0 == (a % (2 ^ 16)) * b
        p1 == ((a \div (2 ^ 16)) % (2 ^ 16)) * b + (p0 \div (2 ^ 16))
        hi == p1 % (2 ^ 16)
        lo == p0 % (2 ^ 16)
    IN  IF hi >= 2 ^ 15 THEN (hi - 2 ^ 16) * (2 ^ 16) + lo
        ELSE hi * (2 ^ 16) + lo

\* Whether the i32 product a * b overflows, for 0 <= b < 2^15: a build with
\* overflow checks panics there.
MulOverflows(a, b) ==
    LET p0 == (a % (2 ^ 16)) * b
        p1 == (a \div (2 ^ 16)) * b + (p0 \div (2 ^ 16))
    IN  p1 < 0 - (2 ^ 15) \/ p1 >= 2 ^ 15

RECURSIVE SqrtIter(_, _, _)
SqrtIter(n, lo, hi) ==
    IF lo >= hi THEN lo
    ELSE LET mid == (lo + hi + 1) \div 2
         IN  IF mid * mid <= n THEN SqrtIter(n, mid, hi)
             ELSE SqrtIter(n, lo, mid - 1)

\* f32::sqrt, rounded down.
FSqrt(n) == SqrtIter(n, 0, 46340)

\* The packed colour 0xAABBGGRR.
Rgba(a, b, g, r) == <<a, b, g, r>>

\* f32::sin of an angle given in 1/100 rad, times 255, by Bhaskara's rational
\* approximation on each half period.
Sin255(t) ==
    LET x == t % 628
        h == IF x < 314 THEN x ELSE x - 314
        p == h * (314 - h)
        v == (16 * p * 255) \div (5 * 314 * 314 - 4 * p)
    IN  IF x < 314 THEN v ELSE -v

(***************************************************************************)
(* The voxel lattice: VoxelData (mesh.rs 185-188) and its accessors.       *)
(***************************************************************************)
VoxelData(d, c) == [density |-> d, color |-> c]

\* let index = pos[2] * size * size + pos[1] * size + pos[0] (mesh.rs 235-236).
VoxelIndex(pos, grid_size) ==
    LET size == grid_size + 1
    IN  pos[3] * size * size + pos[2] * size + pos[1]

\* fn get_voxel_data (mesh.rs 233-238).
get_voxel_data(voxels, pos, grid_size) ==
    voxels[VoxelIndex(pos, grid_size) + 1]

\* fn get_voxel_density (mesh.rs 240-242).
get_voxel_density(voxels, pos, grid_size) ==
    get_voxel_data(voxels, pos, grid_size).density

\* fn get_voxel_color (mesh.rs 244-246).
get_voxel_color(voxels, pos, grid_size) ==
    get_voxel_data(voxels, pos, grid_size).color

\* The bounds test against the resolution instead of the lattice size.
OutOfBoundsOfResolution(pos, grid_size) ==
    \/ pos[1] < 0 \/ pos[2] < 0 \/ pos[3] < 0
    \/ pos[1] >= grid_size \/ pos[2] >= grid_size \/ pos[3] >= grid_size

\* The bounds test that lets through a coordinate equal to the lattice size.
OutOfBoundsBeyondSize(pos, grid_size) ==
    LET size == grid_size + 1
    IN  \/ pos[1] < 0 \/ pos[2] < 0 \/ pos[3] < 0
        \/ pos[1] > size \/ pos[2] > size \/ pos[3] > size

\* The bounds test of both safe accessors (mesh.rs 250-251, 264-265).
OutOfBounds(pos, grid_size) ==
    LET size == grid_size + 1
    IN  \/ pos[1] < 0 \/ pos[2] < 0 \/ pos[3] < 0
        \/ pos[1] >= size \/ pos[2] >= size \/ pos[3] >= size

\* The sentinels returned outside the lattice (mesh.rs 253, 267).
SentinelDensity == One
SentinelColor == Rgba(128, 128, 128, 255)

\* The indices at which a safe accessor called at pos reads voxels: none when
\* it returns the sentinel (mesh.rs 250-259, 264-273).
SafeReads(pos, grid_size) ==
    IF OutOfBounds(pos, grid_size) THEN {} ELSE {VoxelIndex(pos, grid_size)}

\* fn get_voxel_density_safe (mesh.rs 248-260).
get_voxel_density_safe(voxels, pos, grid_size) ==
    IF OutOfBounds(pos, grid_size) THEN SentinelDensity
    ELSE get_voxel_density(voxels, pos, grid_size)

\* fn get_voxel_color_safe (mesh.rs 262-274).
get_voxel_color_safe(voxels, pos, grid_size) ==
    IF OutOfBounds(pos, grid_size) THEN SentinelColor
    ELSE get_voxel_color(voxels, pos, grid_size)

(***************************************************************************)
(* Edge interpolation (mesh.rs 304-352).                                   *)
(***************************************************************************)
\* The guards without the test of val1 against val2.
InterpGuardOfZeroOnly(val1, val2) ==
    IF Abs(0 - val1) < EPS THEN "first"
    ELSE IF Abs(0 - val2) < EPS THEN "second"
    ELSE "mu"

\* The three guards that interpolate_vertex and interpolate_normal share
\* (mesh.rs 306-314, 336-344): which endpoint is returned as it is, or "mu"
\* when the division of line 316 / 346 is evaluated.
InterpGuard(val1, val2) ==
    IF Abs(0 - val1) < EPS THEN "first"
    ELSE IF Abs(0 - val2) < EPS THEN "second"
    ELSE IF Abs(val1 - val2) < EPS THEN "first"
    ELSE "mu"

\* a + mu * (b - a) with mu = (isolevel - val1) / (val2 - val1)
\* (mesh.rs 316-320, 346-350).
Lerp(a, b, val1, val2) == a + FDiv((0 - val1) * (b - a), val2 - val1)

\* fn interpolate_vertex (mesh.rs 304-322).
interpolate_vertex(p1, p2, val1, val2) ==
    LET g == InterpGuard(val1, val2)
    IN  IF g = "first" THEN p1
        ELSE IF g = "second" THEN p2
        ELSE Array([k \in 1..3 |-> Lerp(p1[k], p2[k], val1, val2)])

\* The closure normalize of interpolate_normal (mesh.rs 327-334).
normalize(v) ==
    LET len == FSqrt(v[1] * v[1] + v[2] * v[2] + v[3] * v[3])
    IN  IF len > 0 THEN Array([k \in 1..3 |-> FDiv(v[k] * Q, len)]) ELSE v

\* fn interpolate_normal (mesh.rs 324-352).
interpolate_normal(n1, n2, val1, val2) ==
    LET g == InterpGuard(val1, val2)
    IN  IF g = "first" THEN normalize(n1)
        ELSE IF g = "second" THEN normalize(n2)
        ELSE normalize(Array([k \in 1..3 |-> Lerp(n1[k], n2[k], val1, val2)]))

(***************************************************************************)
(* Gradient normals (mesh.rs 354-373).                                     *)
(***************************************************************************)
\* The threshold 0.0001 of line 364, in units of 1e-6.
GRADIENT_EPS == 100

Max3(a, b, c) ==
    LET ab == IF a > b THEN a ELSE b
    IN  IF ab > c THEN ab ELSE c

\* The central differences dx, dy, dz (mesh.rs 355-360).
Gradient(voxels, pos, grid_size) ==
    LET d(off) == get_voxel_density_safe(voxels,
                      <<pos[1] + off[1], pos[2] + off[2], pos[3] + off[3]>>,
                      grid_size)
    IN  << d(<<1, 0, 0>>) - d(<<-1, 0, 0>>),
           d(<<0, 1, 0>>) - d(<<0, -1, 0>>),
           d(<<0, 0, 1>>) - d(<<0, 0, -1>>) >>

\* length > 0.0001 (mesh.rs 363-364).  A component above the threshold
\* decides it; below, the squares are small enough to be summed.
GradientIsLong(g) ==
    LET m == Max3(Abs(g[1]), Abs(g[2]), Abs(g[3]))
    IN  IF m > GRADIENT_EPS THEN TRUE
        ELSE g[1] * g[1] + g[2] * g[2] + g[3] * g[3]
                 > GRADIENT_EPS * GRADIENT_EPS

\* -gradient / length (mesh.rs 365-369).  The gradient is first scaled to 15
\* bits so that the squares fit; the direction is unchanged.
NegUnit(g) ==
    LET m   == Max3(Abs(g[1]), Abs(g[2]), Abs(g[3]))
        sh  == (m \div (2 ^ 14)) + 1
        s   == Array([k \in 1..3 |-> FDiv(g[k], sh)])
        len == FSqrt(s[1] * s[1] + s[2] * s[2] + s[3] * s[3])
    IN  Array([k \in 1..3 |-> FDiv((0 - s[k]) * Q, len)])

\* The default normal [0.0, 1.0, 0.0] (mesh.rs 371).
UpVector == <<0, Q, 0>>

\* fn calculate_gradient (mesh.rs 354-373).
calculate_gradient(voxels, pos, grid_size) ==
    LET g == Gradient(voxels, pos, grid_size)
    IN  IF GradientIsLong(g) THEN NegUnit(g) ELSE UpVector

(***************************************************************************)
(* The Field Sampler and the Voxel Grid Builder.  only_noise_for_chunk is  *)
(* imported by mesh.rs (line 1) and is not part of the sources; it is      *)
(* modelled from sections 4.1 and 4.2 of the specification: a total,       *)
(* stateless function of the world position, sampled at every lattice      *)
(* point chunk_offset + local_pos and stored in the lattice's index order. *)
(* The swappable field policy is one of a small family of fields.          *)
(***************************************************************************)
Fields == {"mist", "corner", "floor", "ramp"}

Clamp(v, lo, hi) == IF v < lo THEN lo ELSE IF v > hi THEN hi ELSE v

\* The density at world position w, within [-1.0, 1.0].
FieldDensity(f, w) ==
    CASE f = "mist"   -> LET m == (w[1] + w[2] + w[3]) % 3
                         IN  IF m = 0 THEN EPS \div 2
                             ELSE IF m = 1 THEN One \div 2 ELSE One
      [] f = "corner" -> IF w = <<0, 0, 0>> THEN 0 - One ELSE One
      [] f = "floor"  -> IF w[2] < 4 THEN 0 - One ELSE One
      [] f = "ramp"   -> Clamp((2 * w[2] - w[1] - 2 * w[3] - 4) * (One \div 8),
                               0 - One, One)

\* only_noise_for_chunk(x, y, z, size): the densities of the chunk's
\* (size + 1)^3 lattice points, x fastest, then y, then z.
only_noise_for_chunk(f, cx, cy, cz, sz) ==
    LET vs == sz + 1
        o  == Array(<< WrappingMul(cx, sz), WrappingMul(cy, sz),
                       WrappingMul(cz, sz) >>)
    IN  [i \in 1..(vs * vs * vs) |->
            FieldDensity(f, << o[1] + ((i - 1) % vs),
                               o[2] + (((i - 1) \div vs) % vs),
                               o[3] + ((i - 1) \div (vs * vs)) >>)]

(***************************************************************************)
(* generate_mesh, part one: the lattice with its colours (mesh.rs 460-485).*)
(***************************************************************************)
\* One colour channel: (sin(t) * 127.5 + 127.5).clamp(0.0, 255.0) as u32 & 0xFF.
Channel(t) == (Clamp((Sin255(t) + 255) \div 2, 0, 255)) % 256

\* The x coordinate of the flat index, taken for its y.
LatticeYOfX(idx, voxel_size) == idx % voxel_size

\* The y coordinate recovered from the flat index idx (mesh.rs 470).
LatticeY(idx, voxel_size) == (idx \div voxel_size) % voxel_size

\* The colour of the voxel at flat index idx (mesh.rs 468-480).
VoxelColor(idx, density, voxel_size) ==
    IF density < 0
    THEN LET yy == LatticeY(idx, voxel_size)
             t  == (yy * 1600) \div voxel_size
         IN  Rgba(255, Channel(t + 400), Channel(t + 200), Channel(t))
    ELSE Rgba(255, 128, 128, 128)

\* The loop of mesh.rs 465-485 over density_data.
BuildVoxels(density_data, sz) ==
    [i \in 1..Len(density_data) |->
        VoxelData(density_data[i],
                  VoxelColor(i - 1, density_data[i], sz + 1))]

(***************************************************************************)
(* generate_mesh, part two: one unit cube (mesh.rs 512-675).               *)
(***************************************************************************)
Bit(n, i) == (n \div (2 ^ i)) % 2

\* The lattice position of corner i of the cube at world_pos (mesh.rs 523-528).
CornerPos(world_pos, i) ==
    << world_pos[1] + CUBE_VERTICES[i + 1][1],
       world_pos[2] + CUBE_VERTICES[i + 1][2],
       world_pos[3] + CUBE_VERTICES[i + 1][3] >>

\* cube_values and cube_colors (mesh.rs 519-531).
CubeValues(voxels, world_pos, sz) ==
    [i \in 0..7 |-> get_voxel_density_safe(voxels, CornerPos(world_pos, i), sz)]

CubeColors(voxels, world_pos, sz) ==
    [i \in 0..7 |-> get_voxel_color_safe(voxels, CornerPos(world_pos, i), sz)]

\* A corner counted as inside when its density is merely below the guard
\* of the interpolation.
InsideNearZero(v) == v < EPS

\* A corner counted as inside when its density is zero.
InsideOrOn(v) == v <= 0

\* Whether corner value v sets its bit of cube_index (mesh.rs 536).
Inside(v) == v < 0

RECURSIVE CubeIndexReversed(_, _)
\* cube_index with corner i on bit 7 - i.
CubeIndexReversed(cube_values, i) ==
    IF i = 8 THEN 0
    ELSE (IF cube_values[i] < 0 THEN 2 ^ (7 - i) ELSE 0)
         + CubeIndexReversed(cube_values, i + 1)

RECURSIVE CubeIndexFrom(_, _)
CubeIndexFrom(cube_values, i) ==
    IF i = 8 THEN 0
    ELSE (IF Inside(cube_values[i]) THEN 2 ^ i ELSE 0)
         + CubeIndexFrom(cube_values, i + 1)

\* cube_index (mesh.rs 534-539).
CubeIndex(cube_values) == CubeIndexFrom(cube_values, 0)

\* Only the cubes with no corner inside are skipped.
SkipCubeOnlyOutside(cube_index) == cube_index = 0

\* Skip empty cubes (mesh.rs 542).
SkipCube(cube_index) == cube_index = 0 \/ cube_index = 255

\* The test of the bit one above the edge's own.
EdgeFlaggedOneBitUp(edges, i) == Bit(edges, (i + 1) % 12) # 0

\* (edges & edge_bit) != 0 with edge_bit = 1 << i (mesh.rs 561-562).
EdgeFlagged(edges, i) == Bit(edges, i) # 0

\* The colour of the endpoint with the larger density.
EdgeColorOfLarger(cube_values, cube_colors, v1, v2) ==
    IF cube_values[v1] < cube_values[v2] THEN cube_colors[v2] ELSE cube_colors[v1]

\* The hard colour selection (mesh.rs 606-610).
EdgeColor(cube_values, cube_colors, v1, v2) ==
    IF cube_values[v1] < cube_values[v2] THEN cube_colors[v1] ELSE cube_colors[v2]

\* The entries vertex_list[i], normal_list[i], color_list[i] (mesh.rs 555-612):
\* zero unless edge i is flagged in edges.
EdgeEntry(voxels, sz, world_pos, cube_values, cube_colors, edges, i) ==
    IF EdgeFlagged(edges, i)
    THEN LET v1 == EDGE_VERTICES[i + 1][1]
             v2 == EDGE_VERTICES[i + 1][2]
             corner1 == CornerPos(world_pos, v1)
             corner2 == CornerPos(world_pos, v2)
             p1 == Array([k \in 1..3 |-> corner1[k] * Q])
             p2 == Array([k \in 1..3 |-> corner2[k] * Q])
             n1 == calculate_gradient(voxels, corner1, sz)
             n2 == calculate_gradient(voxels, corner2, sz)
         IN  [ v |-> interpolate_vertex(p1, p2, cube_values[v1], cube_values[v2]),
               n |-> interpolate_normal(n1, n2, cube_values[v1], cube_values[v2]),
               c |-> EdgeColor(cube_values, cube_colors, v1, v2) ]
    ELSE [ v |-> <<0, 0, 0>>, n |-> <<0, 0, 0>>, c |-> Rgba(0, 0, 0, 0) ]

\* The table read one entry further on.
TriangleTableOneOn(idx) == TRIANGLE_TABLE_DATA[idx + 2]

\* TRIANGLE_TABLE_DATA[idx] with the source's zero-based index.
TriangleTable(idx) == TRIANGLE_TABLE_DATA[idx + 1]

\* Rows taken to be 17 entries apart.
BaseTriangleIndexOfWideRows(cube_index) == cube_index * 17

\* base_triangle_index (mesh.rs 615).
BaseTriangleIndex(cube_index) == cube_index * 16

\* An advance of one entry for each iteration.
NextTriIdxByOne(tri_idx) == tri_idx + 1

\* tri_idx += 3 (mesh.rs 674).
NextTriIdx(tri_idx) == tri_idx + 3

\* One iteration of the while loop: its tri_idx, the three indices it reads,
\* the three entries read and how it ends: "break" (mesh.rs 627-629), "emit"
\* (631-672), "skip" (631 false), or "panic" when an index is not in
\* TRIANGLE_TABLE_DATA (623-625).
Iteration(tri_idx, reads, edges, outcome) ==
    [ tri_idx |-> tri_idx, reads |-> reads, edges |-> edges,
      outcome |-> outcome ]

\* The iterations of the while loop (mesh.rs 617-675), in order: the loop of
\* TriangleWalk below, with what each iteration reads.
RECURSIVE WalkIterations(_, _)
WalkIterations(base_triangle_index, tri_idx) ==
    IF tri_idx >= 16 THEN <<>>
    ELSE LET reads == << base_triangle_index + tri_idx,
                         base_triangle_index + tri_idx + 1,
                         base_triangle_index + tri_idx + 2 >>
         IN  IF \E k \in 1..3 : reads[k] >= Len(TRIANGLE_TABLE_DATA)
             THEN << Iteration(tri_idx, reads, <<>>, "panic") >>
             ELSE LET edge1 == TriangleTable(reads[1])
                      edge2 == TriangleTable(reads[2])
                      edge3 == TriangleTable(reads[3])
                  IN  IF edge1 = -1
                      THEN << Iteration(tri_idx, reads, <<edge1, edge2, edge3>>,
                                        "break") >>
                      ELSE << Iteration(tri_idx, reads, <<edge1, edge2, edge3>>,
                                  IF edge1 >= 0 /\ edge2 >= 0 /\ edge3 >= 0
                                  THEN "emit" ELSE "skip") >>
                           \o WalkIterations(base_triangle_index,
                                             NextTriIdx(tri_idx))

\* The triangle walk (mesh.rs 617-675): the edge triples that are emitted.
RECURSIVE TriangleWalk(_, _)
TriangleWalk(base_triangle_index, tri_idx) ==
    IF tri_idx >= 16 THEN <<>>
    ELSE LET edge1 == TriangleTable(base_triangle_index + tri_idx)
             edge2 == TriangleTable(base_triangle_index + tri_idx + 1)
             edge3 == TriangleTable(base_triangle_index + tri_idx + 2)
         IN  IF edge1 = -1 THEN <<>>
             ELSE (IF edge1 >= 0 /\ edge2 >= 0 /\ edge3 >= 0
                   THEN << <<edge1, edge2, edge3>> >> ELSE <<>>)
                  \o TriangleWalk(base_triangle_index, NextTriIdx(tri_idx))

\* What one cube adds to its meshlet: the pushes to local_positions,
\* local_normals and local_colors, and the increment of density; with the
\* cube's cube_index and the number of triangles it emitted.
CubeOutput(ci, d, ps, ns, cs, t) ==
    [ cube_index |-> ci, density |-> d, positions |-> ps, normals |-> ns,
      colors |-> cs, triangles |-> t ]

\* The body of the innermost cell loop (mesh.rs 512-675) for the cube at
\* world_pos.
ProcessCube(voxels, sz, world_pos, chunk_world_pos) ==
    LET cube_values == CubeValues(voxels, world_pos, sz)
        cube_colors == CubeColors(voxels, world_pos, sz)
        cube_index  == CubeIndex(cube_values)
        edges       == EDGE_TABLE_DATA[cube_index + 1]
        lists       == Array([i \in 1..12 |->
                           EdgeEntry(voxels, sz, world_pos, cube_values,
                                     cube_colors, edges, i - 1)])
        entry(i)    == lists[i + 1]
        tris        == TriangleWalk(BaseTriangleIndex(cube_index), 0)
        edge_of(j)  == tris[((j - 1) \div 3) + 1][((j - 1) % 3) + 1]
        to_world(v) == Array([k \in 1..3 |-> v[k] + chunk_world_pos[k] * Q])
    IN  IF SkipCube(cube_index)
        THEN CubeOutput(cube_index, 0, <<>>, <<>>, <<>>, 0)
        ELSE IF edges = 0
        THEN CubeOutput(cube_index, 1, <<>>, <<>>, <<>>, 0)
        ELSE CubeOutput(cube_index, 1,
                 Array([j \in 1..(3 * Len(tris)) |-> to_world(entry(edge_of(j)).v)]),
                 Array([j \in 1..(3 * Len(tris)) |-> entry(edge_of(j)).n]),
                 Array([j \in 1..(3 * Len(tris)) |-> entry(edge_of(j)).c]),
                 Len(tris))

(***************************************************************************)
(* generate_mesh, part three: one meshlet (mesh.rs 501-678).               *)
(***************************************************************************)
\* The cell loops of mesh.rs 509-516: cell number c of the meshlet, in loop
\* order (x fastest, then y, then z), and the lattice position of its cube.
CellWorldPos(actual_id, c) ==
    << (c % COMPRESSION) + actual_id[1] * COMPRESSION,
       ((c \div COMPRESSION) % COMPRESSION) + actual_id[2] * COMPRESSION,
       (c \div (COMPRESSION * COMPRESSION)) + actual_id[3] * COMPRESSION >>

\* The local lists after the cells lo .. hi - 1 have been processed in order.
RECURSIVE CellRange(_, _, _, _, _, _)
CellRange(voxels, sz, actual_id, chunk_world_pos, lo, hi) ==
    IF hi - lo = 1
    THEN LET o == ProcessCube(voxels, sz, CellWorldPos(actual_id, lo),
                              chunk_world_pos)
         IN  [ positions |-> o.positions, normals |-> o.normals,
               colors |-> o.colors, density |-> o.density,
               triangles |-> o.triangles,
               cubes |-> << [ cube_index |-> o.cube_index,
                              vertices |-> Len(o.positions),
                              triangles |-> o.triangles ] >> ]
    ELSE LET mid == (lo + hi) \div 2
             a   == CellRange(voxels, sz, actual_id, chunk_world_pos, lo, mid)
             b   == CellRange(voxels, sz, actual_id, chunk_world_pos, mid, hi)
         IN  [ positions |-> a.positions \o b.positions,
               normals |-> a.normals \o b.normals,
               colors |-> a.colors \o b.colors,
               density |-> a.density + b.density,
               triangles |-> a.triangles + b.triangles,
               cubes |-> a.cubes \o b.cubes ]

\* local_positions, local_normals, local_colors and density of the meshlet
\* actual_id when its cell loops end (mesh.rs 503-678).
Meshlet(voxels, sz, actual_id, chunk_world_pos) ==
    CellRange(voxels, sz, actual_id, chunk_world_pos, 0,
              COMPRESSION * COMPRESSION * COMPRESSION)

(***************************************************************************)
(* generate_mesh as a state machine: the call, one step per meshlet of the *)
(* group loops (mesh.rs 498-705), and the return of the Chunk.             *)
(***************************************************************************)
\* The largest resolution a call is made with.
MaxRes == 16

\* The resolutions of the calls: the multiples of COMPRESSION up to MaxRes
\* and their successors (0, 1, 8, 9, 16).
Resolutions == {r \in 0..MaxRes : r % COMPRESSION <= 1}

\* The chunk coordinates of the calls.
ChunkCoords == { <<0, 0, 0>>, <<0, 1, 0>> }

VARIABLES
    pc,                  \* "idle", "loop" (in the group loops) or "done"
    field,               \* the field policy behind only_noise_for_chunk
    x, y, z, size,       \* the arguments of the call
    s_size,              \* size / COMPRESSION
    voxels,              \* the lattice
    chunk_world_pos,
    group,               \* <<gx, gy, gz>> of the next iteration
    all_vertices, all_normals, all_colors, all_material_colors,
    commands, densities, vertex_counts,
    visited,             \* history: actual_id of every iteration so far
    tri_counts,          \* history: triangles emitted by every meshlet so far
    last_cubes,          \* history: the cubes of the last meshlet, in loop order
    chunk,               \* the returned Chunk
    calls,               \* history: the number of calls made
    prev,                \* history: the arguments, the lattice and the Chunk of
                         \* the call before
    args,                \* the arguments of a call of one of the helpers
    result               \* what that call returned

vars == << pc, field, x, y, z, size, s_size, voxels, chunk_world_pos, group,
           all_vertices, all_normals, all_colors, all_material_colors,
           commands, densities, vertex_counts, visited, tri_counts,
           last_cubes, chunk, calls, prev, args, result >>

\* A buffer that still holds the vertices of the call before.
StaleVec == all_vertices

\* Vec::new() (mesh.rs 489-495): every buffer of a call starts empty.
NewVec == <<>>

\* A Command with instance_count and first_instance filled the wrong way
\* round.
CommandFieldsSwapped(vc, ic, fv, fi) ==
    [ vertex_count |-> vc, instance_count |-> fi, first_vertex |-> fv,
      first_instance |-> ic ]

\* The occupancy counter starting from the count of the meshlet before.
CarriedDensity == IF densities = <<>> THEN 0 ELSE densities[Len(densities)]

\* let mut density = 0 (mesh.rs 506): the occupancy counter starts at zero in
\* every meshlet.
InitialDensity == 0

\* struct Command (mesh.rs 376-381).
Command(vc, ic, fv, fi) ==
    [ vertex_count |-> vc, instance_count |-> ic, first_vertex |-> fv,
      first_instance |-> fi ]

\* struct Chunk (mesh.rs 384-392), as built at mesh.rs 707-715.
Chunk(cmds, vcs, ds, vs, ns, mcs, cs) ==
    [ commands |-> cmds, vertex_counts |-> vcs, densities |-> ds,
      vertices |-> vs, normals |-> ns, material_colors |-> mcs,
      colors |-> cs ]

EmptyChunk == Chunk(<<>>, <<>>, <<>>, <<>>, <<>>, <<>>, <<>>)

\* Flat4 without the padding float: three floats per vertex.
Flat3(vecs, w) ==
    [j \in 1..(3 * Len(vecs)) |-> vecs[((j - 1) \div 3) + 1][((j - 1) % 3) + 1]]

\* Flat4 with the padding float 0.0 whatever w is.
Flat4ZeroPadded(vecs, w) ==
    [j \in 1..(4 * Len(vecs)) |->
        IF (j - 1) % 4 = 3 THEN 0 ELSE vecs[((j - 1) \div 4) + 1][((j - 1) % 4) + 1]]

\* Lit colours that start black instead of as the material colours.
LitColorsUnlit(local_colors) ==
    [j \in 1..Len(local_colors) |-> Rgba(255, 0, 0, 0)]

\* local_colors.iter().copied() (mesh.rs 692): the lit colours start as the
\* material colours.
LitColors(local_colors) == local_colors

\* iter().flat_map(|v| [v[0], v[1], v[2], w]) (mesh.rs 684, 686).
Flat4(vecs, w) ==
    [j \in 1..(4 * Len(vecs)) |->
        IF (j - 1) % 4 = 3 THEN w ELSE vecs[((j - 1) \div 4) + 1][((j - 1) % 4) + 1]]

\* The number of groups rounded up.
GroupCountRoundedUp(sz) == (sz + COMPRESSION - 1) \div COMPRESSION

\* let s_size = size / COMPRESSION (mesh.rs 456).
GroupCount(sz) == sz \div COMPRESSION

\* let vertex_count = local_positions.len() as u32 (mesh.rs 680).
VertexCount(local_positions) == Len(local_positions)

\* FirstVertex counting floats instead of vertices.
FirstVertexInFloats(vertices) == Len(vertices)

\* let first_vertex = (all_vertices.len() / 4) as u32 (mesh.rs 681).
FirstVertex(vertices) == Len(vertices) \div 4

\* The group loops nested the other way round: x outermost, z innermost.
NextGroupXOuter(g, s) ==
    IF g[3] + 1 < s THEN <<g[1], g[2], g[3] + 1>>
    ELSE IF g[2] + 1 < s THEN <<g[1], g[2] + 1, 0>>
    ELSE IF g[1] + 1 < s THEN <<g[1] + 1, 0, 0>>
    ELSE <<0, 0, s>>

\* The group loops for gz { for gy { for gx (mesh.rs 498-500): the iteration
\* after <<gx, gy, gz>>; gz = s ends the loops.
NextGroup(g, s) ==
    IF g[1] + 1 < s THEN <<g[1] + 1, g[2], g[3]>>
    ELSE IF g[2] + 1 < s THEN <<0, g[2] + 1, g[3]>>
    ELSE <<0, 0, g[3] + 1>>

LoopDone == group[3] >= s_size

\* No call of generate_mesh has been made.
Fresh ==
    /\ x = 0 /\ y = 0 /\ z = 0 /\ s_size = 0
    /\ chunk_world_pos = <<0, 0, 0>>
    /\ group = <<0, 0, 0>>
    /\ all_vertices = <<>> /\ all_normals = <<>>
    /\ all_colors = <<>> /\ all_material_colors = <<>>
    /\ commands = <<>> /\ densities = <<>> /\ vertex_counts = <<>>
    /\ visited = <<>> /\ tri_counts = <<>> /\ last_cubes = <<>>
    /\ chunk = EmptyChunk
    /\ calls = 0
    /\ prev = [x |-> 0, y |-> 0, z |-> 0, size |-> 0, voxels |-> <<>>,
               chunk |-> EmptyChunk]

Init ==
    /\ pc = "idle"
    /\ field \in Fields
    /\ size = 0
    /\ voxels = <<>>
    /\ Fresh
    /\ args = <<>>
    /\ result = <<>>

\* generate_mesh(cx, cy, cz, sz) up to the group loops (mesh.rs 454-495).
GenerateMesh(cx, cy, cz, sz) ==
    /\ pc' = "loop"
    /\ calls' = calls + 1
    /\ x' = cx /\ y' = cy /\ z' = cz /\ size' = sz
    /\ s_size' = GroupCount(sz)
    /\ voxels' = BuildVoxels(only_noise_for_chunk(field, cx, cy, cz, sz), sz)
    /\ chunk_world_pos' = << WrappingMul(cx, sz), WrappingMul(cy, sz),
                             WrappingMul(cz, sz) >>
    /\ group' = <<0, 0, 0>>
    /\ all_vertices' = NewVec /\ all_normals' = NewVec
    /\ all_colors' = NewVec /\ all_material_colors' = NewVec
    /\ commands' = NewVec /\ densities' = NewVec /\ vertex_counts' = NewVec
    /\ visited' = <<>> /\ tri_counts' = <<>> /\ last_cubes' = <<>>
    /\ UNCHANGED <<field, args, result>>

\* One iteration of the group loops (mesh.rs 501-703).
ProcessMeshlet ==
    /\ pc = "loop"
    /\ ~LoopDone
    /\ \E m \in {Meshlet(voxels, size, group, chunk_world_pos)} :
       LET actual_id    == group
           vertex_count == VertexCount(m.positions)
           first_vertex == FirstVertex(all_vertices)
       IN  /\ all_vertices' = all_vertices \o Flat4(m.positions, Q)
           /\ all_normals' = all_normals \o Flat4(m.normals, 0)
           /\ all_material_colors' = all_material_colors \o m.colors
           /\ all_colors' = all_colors \o LitColors(m.colors)
           /\ vertex_counts' = Append(vertex_counts, vertex_count)
           /\ densities' = Append(densities, InitialDensity + m.density)
           /\ commands' = Append(commands, Command(vertex_count, 1, first_vertex, 0))
           /\ visited' = Append(visited, actual_id)
           /\ tri_counts' = Append(tri_counts, m.triangles)
           /\ last_cubes' = m.cubes
    /\ group' = NextGroup(group, s_size)
    /\ UNCHANGED << pc, field, x, y, z, size, s_size, voxels, chunk_world_pos,
                    chunk, calls, prev, args, result >>

\* The end of the loops and the return (mesh.rs 707-715).
Return ==
    /\ pc = "loop"
    /\ LoopDone
    /\ pc' = "done"
    /\ chunk' = Chunk(commands, vertex_counts, densities, all_vertices,
                      all_normals, all_material_colors, all_colors)
    /\ UNCHANGED << field, x, y, z, size, s_size, voxels, chunk_world_pos, group,
                    all_vertices, all_normals, all_colors, all_material_colors,
                    commands, densities, vertex_counts, visited, tri_counts,
                    last_cubes, calls, prev, args, result >>

\* The first call.
Call ==
    /\ pc = "idle"
    /\ \E c \in ChunkCoords, sz \in Resolutions : GenerateMesh(c[1], c[2], c[3], sz)
    /\ UNCHANGED <<chunk, prev>>

\* A second call, made after the first has returned; the caller keeps the
\* first call's Chunk.
CallAgain ==
    /\ pc = "done"
    /\ calls = 1
    /\ prev' = [x |-> x, y |-> y, z |-> z, size |-> size, voxels |-> voxels,
                chunk |-> chunk]
    /\ chunk' = EmptyChunk
    /\ \E c \in ChunkCoords, sz \in Resolutions : GenerateMesh(c[1], c[2], c[3], sz)

Next == Call \/ ProcessMeshlet \/ Return

\* One call of generate_mesh.
Spec == Init /\ [][Next]_vars

NextTwice == Call \/ CallAgain \/ ProcessMeshlet \/ Return

\* Two calls of generate_mesh, one after the other.
SpecTwice == Init /\ [][NextTwice]_vars

(***************************************************************************)
(* Calls for chunks far from the origin, where chunk coordinate times      *)
(* resolution leaves the i32 range (mesh.rs 487).  A build without         *)
(* overflow checks wraps the product and goes on; a build with overflow    *)
(* checks panics.                                                          *)
(***************************************************************************)
\* Chunk coordinates whose offset wraps to 0 and to one resolution, and one
\* that does not overflow.
FarChunkCoords == { <<2 ^ 29, 0, 0>>, <<2 ^ 29 + 1, 0, 0>>, <<0, 1, 0>> }

\* The positive multiples of COMPRESSION among the resolutions.
FarResolutions == {r \in Resolutions : r > 0 /\ r % COMPRESSION = 0}

\* A call in a build without overflow checks.
FarCall ==
    /\ pc = "idle"
    /\ \E c \in FarChunkCoords, sz \in FarResolutions :
          GenerateMesh(c[1], c[2], c[3], sz)
    /\ UNCHANGED <<chunk, prev>>

\* A call in a build with overflow checks: x * size as i32 panics.
FarCallPanics ==
    /\ pc = "idle"
    /\ \E c \in FarChunkCoords, sz \in FarResolutions :
          /\ \/ MulOverflows(c[1], sz) \/ MulOverflows(c[2], sz)
             \/ MulOverflows(c[3], sz)
          /\ x' = c[1] /\ y' = c[2] /\ z' = c[3] /\ size' = sz
    /\ pc' = "panicked"
    /\ calls' = calls + 1
    /\ UNCHANGED << field, s_size, voxels, chunk_world_pos, group,
                    all_vertices, all_normals, all_colors, all_material_colors,
                    commands, densities, vertex_counts, visited, tri_counts,
                    last_cubes, chunk, prev, args, result >>

NextFar == FarCall \/ FarCallPanics \/ ProcessMeshlet \/ Return

SpecFar == Init /\ [][NextFar]_vars

(***************************************************************************)
(* interpolate_vertex on its own: one call with arguments drawn from the   *)
(* densities around its guards and from cube corners.                      *)
(***************************************************************************)
\* Densities on both sides of 0.0 and of the guard 0.00001, and pairs closer
\* to each other than the guard.
InterpDensities ==
    { 0 - One, 0 - EPS - 1, 0 - EPS, 1 - EPS, 0, EPS - 1, EPS, EPS + 1,
      One - EPS, One - EPS + 1, One }

InterpPoints == { <<0, 0, 0>>, <<Q, 0, 0>>, <<Q, Q, Q>> }

InitInterp ==
    /\ pc = "interpolate"
    /\ field = "mist"
    /\ size = 0
    /\ voxels = <<>>
    /\ Fresh
    /\ args \in [ p1 : InterpPoints, p2 : InterpPoints,
                  val1 : InterpDensities, val2 : InterpDensities ]
    /\ result = <<>>

\* One call of interpolate_vertex (mesh.rs 304-322); result.branch is the
\* return statement reached and result.denominator the val2 - val1 of line 316.
Interpolate ==
    /\ pc = "interpolate"
    /\ pc' = "interpolated"
    /\ result' = [ out |-> interpolate_vertex(args.p1, args.p2,
                                              args.val1, args.val2),
                   branch |-> InterpGuard(args.val1, args.val2),
                   denominator |-> args.val2 - args.val1 ]
    /\ UNCHANGED << field, x, y, z, size, s_size, voxels, chunk_world_pos, group,
                    all_vertices, all_normals, all_colors, all_material_colors,
                    commands, densities, vertex_counts, visited, tri_counts,
                    last_cubes, chunk, calls, prev, args >>

NextInterp == Interpolate

SpecInterp == InitInterp /\ [][NextInterp]_vars

(***************************************************************************)
(* The safe accessors on their own: one read of a lattice at a signed      *)
(* position in and around it.                                              *)
(***************************************************************************)
\* The largest resolution of the lattice that is read.
MaxReadRes == 2

\* How far beyond the lattice the positions read lie.
Margin == 2

InitRead ==
    /\ pc = "read"
    /\ field \in Fields
    /\ size \in 1..MaxReadRes
    /\ voxels = BuildVoxels(only_noise_for_chunk(field, 0, 0, 0, size), size)
    /\ Fresh
    /\ args \in ((0 - Margin)..(MaxReadRes + Margin))
                \X ((0 - Margin)..(MaxReadRes + Margin))
                \X ((0 - Margin)..(MaxReadRes + Margin))
    /\ \A k \in 1..3 : args[k] <= size + Margin
    /\ result = <<>>

\* One call of get_voxel_density_safe and one of get_voxel_color_safe at the
\* same position (mesh.rs 248-274).  voxels[index] with an index that is not
\* in the slice aborts the call (mesh.rs 237).
ReadSafe ==
    /\ pc = "read"
    /\ \E reads \in {SafeReads(args, size)} :
          IF \E i \in reads : i < 0 \/ i >= Len(voxels)
          THEN /\ pc' = "aborted"
               /\ result' = [ reads |-> reads ]
          ELSE /\ pc' = "read_done"
               /\ result' = [ density |-> get_voxel_density_safe(voxels, args, size),
                              color |-> get_voxel_color_safe(voxels, args, size),
                              reads |-> reads ]
    /\ UNCHANGED << field, x, y, z, size, s_size, voxels, chunk_world_pos, group,
                    all_vertices, all_normals, all_colors, all_material_colors,
                    commands, densities, vertex_counts, visited, tri_counts,
                    last_cubes, chunk, calls, prev, args >>

NextRead == ReadSafe

SpecRead == InitRead /\ [][NextRead]_vars

(***************************************************************************)
(* The body of the cell loops on its own (mesh.rs 512-675): one cube of a  *)
(* lattice of resolution COMPRESSION whose eight corners take each of the  *)
(* 256 configurations.  The lattice is what only_noise_for_chunk returns   *)
(* for a field that is outside everywhere but at the corners of that cube. *)
(***************************************************************************)
\* A cube at the lattice's boundary and one in its interior.
CubePositions == { <<0, 0, 0>>, <<3, 3, 3>> }

\* "unit": densities -1.0 and 1.0.  "graded": a different density at each
\* corner, 0.0 at corner 0 when it is outside.
CubeProfiles == {"unit", "graded"}

\* The density at corner i of the cube, inside or outside as bit i of config.
CornerDensity(config, profile, i) ==
    IF Bit(config, i) = 1
    THEN IF profile = "unit" THEN 0 - One ELSE 0 - (i + 1) * (One \div 8)
    ELSE IF profile = "unit" THEN One ELSE i * (One \div 8)

\* The density of the field at lattice point w.
CubeField(config, profile, origin, w) ==
    IF \A k \in 1..3 : w[k] - origin[k] \in 0..1
    THEN CornerDensity(config, profile,
                       CHOOSE i \in 0..7 : CornerPos(origin, i) = w)
    ELSE One

\* The densities of the lattice, x fastest, then y, then z.
CubeLattice(config, profile, origin, sz) ==
    LET vs == sz + 1
    IN  [i \in 1..(vs * vs * vs) |->
            CubeField(config, profile, origin,
                      << (i - 1) % vs, ((i - 1) \div vs) % vs,
                         (i - 1) \div (vs * vs) >>)]

InitCube ==
    /\ pc = "cube"
    /\ field = "mist"
    /\ size = COMPRESSION
    /\ args \in [ config : 0..255, profile : CubeProfiles,
                  world_pos : CubePositions ]
    /\ voxels = BuildVoxels(CubeLattice(args.config, args.profile,
                                        args.world_pos, size), size)
    /\ Fresh
    /\ result = <<>>

\* The body of the cell loops for the cube at args.world_pos.  result keeps
\* the locals of the body: cube_values, cube_colors, cube_index, edges, the
\* edges whose entries were written (flagged), the three lists, the
\* iterations of the triangle walk, and what the cube pushed (out).  An index
\* outside TRIANGLE_TABLE_DATA aborts the call.
Cube ==
    /\ pc = "cube"
    /\ \E cube_values \in {CubeValues(voxels, args.world_pos, size)} :
       \E cube_index \in {CubeIndex(cube_values)} :
       \E edges \in {EDGE_TABLE_DATA[cube_index + 1]} :
       \E walk \in {IF SkipCube(cube_index) \/ edges = 0 THEN <<>>
                    ELSE WalkIterations(BaseTriangleIndex(cube_index), 0)} :
          IF \E j \in 1..Len(walk) : walk[j].outcome = "panic"
          THEN /\ pc' = "aborted"
               /\ result' = [ cube_index |-> cube_index, walk |-> walk ]
          ELSE /\ pc' = "cube_done"
               /\ result' =
                     [ cube_values |-> cube_values,
                       cube_colors |-> CubeColors(voxels, args.world_pos, size),
                       cube_index  |-> cube_index,
                       edges       |-> edges,
                       flagged     |-> IF SkipCube(cube_index) THEN {}
                                       ELSE {i \in 0..11 : EdgeFlagged(edges, i)},
                       lists       |-> Array([i \in 1..12 |->
                                          EdgeEntry(voxels, size, args.world_pos,
                                              cube_values,
                                              CubeColors(voxels, args.world_pos, size),
                                              edges, i - 1)]),
                       walk        |-> walk,
                       out         |-> ProcessCube(voxels, size, args.world_pos,
                                                   chunk_world_pos) ]
    /\ UNCHANGED << field, x, y, z, size, s_size, voxels, chunk_world_pos, group,
                    all_vertices, all_normals, all_colors, all_material_colors,
                    commands, densities, vertex_counts, visited, tri_counts,
                    last_cubes, chunk, calls, prev, args >>

NextCube == Cube

SpecCube == InitCube /\ [][NextCube]_vars

-----------------------------------------------------------------------------
\* Properties of the returned Chunk.

Returned == pc = "done"

RECURSIVE SumVertexCount(_, _)
\* The sum of commands[j].vertex_count over j <= n.
SumVertexCount(cmds, n) ==
    IF n = 0 THEN 0 ELSE SumVertexCount(cmds, n - 1) + cmds[n].vertex_count

RECURSIVE SumSeq(_, _)
SumSeq(s, n) == IF n = 0 THEN 0 ELSE SumSeq(s, n - 1) + s[n]

\* C1: in the returned Chunk, commands[i].first_vertex is the sum of
\* commands[j].vertex_count over j < i; so first_vertex never decreases, each
\* meshlet's range ends where the next one starts, the first starts at 0 and
\* the last ends at the end of the vertices buffer (4 floats per vertex).
C1_FirstVertexIsPrefixSum ==
    Returned =>
        LET cmds == chunk.commands
            n    == Len(cmds)
        IN  /\ \A i \in 1..n :
                   cmds[i].first_vertex = SumVertexCount(cmds, i - 1)
            /\ \A i \in 1..(n - 1) :
                   /\ cmds[i].first_vertex <= cmds[i + 1].first_vertex
                   /\ cmds[i].first_vertex + cmds[i].vertex_count
                         = cmds[i + 1].first_vertex
            /\ 4 * SumVertexCount(cmds, n) = Len(chunk.vertices)
            /\ Len(chunk.normals) = Len(chunk.vertices)
            /\ 4 * Len(chunk.colors) = Len(chunk.vertices)
            /\ 4 * Len(chunk.material_colors) = Len(chunk.vertices)

\* A returned Chunk in which a meshlet with vertices starts behind another
\* meshlet with vertices, and an empty meshlet lies behind a non-empty one.
C1_Witness ==
    /\ Returned
    /\ \E i \in 1..Len(chunk.commands) :
          chunk.commands[i].first_vertex > 0 /\ chunk.commands[i].vertex_count > 0
    /\ \E i \in 1..Len(chunk.commands) :
          chunk.commands[i].first_vertex > 0 /\ chunk.commands[i].vertex_count = 0

\* C2: for every meshlet of the returned Chunk, Command.vertex_count (and the
\* vertex_counts entry) is 3 times the number of triangles the meshlet emitted,
\* and 4 times the sum of vertex_counts is the length of the vertices buffer.
C2_VertexCountIsThreePerTriangle ==
    Returned =>
        /\ Len(chunk.commands) = Len(tri_counts)
        /\ Len(chunk.vertex_counts) = Len(tri_counts)
        /\ \A i \in 1..Len(tri_counts) :
              /\ chunk.commands[i].vertex_count = 3 * tri_counts[i]
              /\ chunk.vertex_counts[i] = 3 * tri_counts[i]
        /\ 4 * SumSeq(chunk.vertex_counts, Len(chunk.vertex_counts))
              = Len(chunk.vertices)

\* A returned Chunk with a meshlet of several triangles.
C2_Witness ==
    /\ Returned
    /\ \E i \in 1..Len(tri_counts) :
          tri_counts[i] > 1 /\ chunk.vertex_counts[i] > 3
    /\ Len(chunk.vertices) > 0

\* The Chunk of the call before, and the arguments it was made with.
SameArguments ==
    /\ calls = 2
    /\ x = prev.x /\ y = prev.y /\ z = prev.z /\ size = prev.size

\* C3: two calls with identical (chunk_x, chunk_y, chunk_z, resolution) return
\* Chunks whose seven buffers are identical element for element: nothing an
\* earlier call leaves behind influences a later one.
C3_SameArgumentsSameChunk ==
    (Returned /\ SameArguments) =>
        /\ chunk.vertices = prev.chunk.vertices
        /\ chunk.normals = prev.chunk.normals
        /\ chunk.material_colors = prev.chunk.material_colors
        /\ chunk.colors = prev.chunk.colors
        /\ chunk.vertex_counts = prev.chunk.vertex_counts
        /\ chunk.densities = prev.chunk.densities
        /\ chunk.commands = prev.chunk.commands

\* The second of two calls with the same arguments has returned a Chunk with
\* geometry in several meshlets.
C3_Witness ==
    /\ Returned /\ SameArguments
    /\ Len(chunk.commands) > 1
    /\ Len(chunk.vertices) > 0
    /\ Len(prev.chunk.vertices) > 0

\* The number of cubes of the group id that are neither all inside nor all
\* outside, counted on the lattice.
ActiveCubes(id) ==
    Cardinality({ c \in 0..(COMPRESSION * COMPRESSION * COMPRESSION - 1) :
        \E p \in {CellWorldPos(id, c)} :
            /\ \E i \in 0..7 :
                  get_voxel_density(voxels, CornerPos(p, i), size) < 0
            /\ \E j \in 0..7 :
                  get_voxel_density(voxels, CornerPos(p, j), size) >= 0 })

\* C4: vertex_counts, densities and commands of the returned Chunk have
\* (resolution / 8)^3 entries each, and entry gz*s*s + gy*s + gx is the one of
\* the group (gx, gy, gz): the groups are visited z outermost, y in the
\* middle, x innermost, each once.
C4_GroupsInLexicographicOrder ==
    Returned =>
        LET s == size \div COMPRESSION
        IN  /\ Len(chunk.vertex_counts) = s * s * s
            /\ Len(chunk.densities) = s * s * s
            /\ Len(chunk.commands) = s * s * s
            /\ Len(visited) = s * s * s
            /\ \A gx, gy, gz \in 0..(s - 1) :
                  LET i == gz * s * s + gy * s + gx
                  IN  /\ visited[i + 1] = <<gx, gy, gz>>
                      /\ chunk.densities[i + 1] = ActiveCubes(<<gx, gy, gz>>)

\* A returned Chunk of eight groups whose x and z neighbours of the first
\* group differ in their number of surface cubes.
C4_Witness ==
    /\ Returned
    /\ Len(chunk.commands) = 8
    /\ chunk.densities[2] # chunk.densities[5]
    /\ chunk.densities[2] # chunk.densities[3]

\* A resolution the mesher is specified for: a positive multiple of COMPRESSION.
ValidResolution(r) == r > 0 /\ r % COMPRESSION = 0

\* C5: a call whose resolution is not a positive multiple of 8 is rejected
\* with an error: it never returns a Chunk.
C5_InvalidResolutionRejected ==
    Returned => ValidResolution(size)

\* C5, second half: no returned Chunk was built from a truncated group count
\* that left unit cubes of the lattice unprocessed.
C5_NoCubeLeftUnprocessed ==
    Returned =>
        Len(visited) * COMPRESSION * COMPRESSION * COMPRESSION
            = size * size * size

\* The single-cube lattice with corner 0 at -1.0 and the other corners at 1.0.
SingleCube ==
    /\ size = 1
    /\ Len(voxels) = 8
    /\ voxels[1].density = 0 - One
    /\ \A i \in 2..8 : voxels[i].density = One

\* C6: for the single-cube lattice (resolution 1) with corner 0 inside and
\* the other corners outside, the returned Chunk holds exactly one triangle
\* (3 vertices of 4 floats).
C6_SingleCubeOneTriangle ==
    (Returned /\ SingleCube) =>
        /\ Len(chunk.vertices) = 4 * 3
        /\ Len(chunk.commands) = 1
        /\ tri_counts = <<1>>

AllPositive == \A i \in 1..Len(voxels) : voxels[i].density > 0

\* C7: for a lattice whose samples all have positive density the returned
\* Chunk has no vertices (empty vertices, normals, material_colors and
\* colors) and every Command has vertex_count 0.
C7_AllPositiveNoVertices ==
    (Returned /\ AllPositive) =>
        /\ chunk.vertices = <<>> /\ chunk.normals = <<>>
        /\ chunk.material_colors = <<>> /\ chunk.colors = <<>>
        /\ \A i \in 1..Len(chunk.commands) :
              /\ chunk.commands[i].vertex_count = 0
              /\ chunk.vertex_counts[i] = 0

\* A returned Chunk of eight meshlets over an all-positive lattice with
\* samples closer to zero than the guard of the interpolation.
C7_Witness ==
    /\ Returned /\ AllPositive
    /\ Len(chunk.commands) = 8
    /\ \E i \in 1..Len(voxels) : voxels[i].density < EPS

RECURSIVE SumCubeVertices(_, _, _)
\* The vertices contributed by the cubes lo + 1 .. hi.
SumCubeVertices(cubes, lo, hi) ==
    IF hi <= lo THEN 0
    ELSE IF hi - lo = 1 THEN cubes[hi].vertices
    ELSE SumCubeVertices(cubes, lo, (lo + hi) \div 2)
           + SumCubeVertices(cubes, (lo + hi) \div 2, hi)

\* The densities of the 8 corners of the cube at lattice position p.
CornerDensities(p) ==
    [i \in 0..7 |-> get_voxel_density(voxels, CornerPos(p, i), size)]

\* C8: a unit cube whose 8 corner densities are all < 0 gets cube_index 255,
\* one whose corner densities are all >= 0 gets cube_index 0, and either
\* contributes no triangle and no vertex to its meshlet (whose vertex count is
\* the sum of its cubes' contributions).
C8_SameSignCubeIsSkipped ==
    Len(visited) > 0 =>
        /\ Len(last_cubes) = COMPRESSION * COMPRESSION * COMPRESSION
        /\ vertex_counts[Len(vertex_counts)]
              = SumCubeVertices(last_cubes, 0, Len(last_cubes))
        /\ \A c \in 0..(Len(last_cubes) - 1) :
              \E d \in {CornerDensities(CellWorldPos(visited[Len(visited)], c))} :
                  /\ (\A i \in 0..7 : d[i] < 0) =>
                        /\ last_cubes[c + 1].cube_index = 255
                        /\ last_cubes[c + 1].vertices = 0
                        /\ last_cubes[c + 1].triangles = 0
                  /\ (\A i \in 0..7 : d[i] >= 0) =>
                        /\ last_cubes[c + 1].cube_index = 0
                        /\ last_cubes[c + 1].vertices = 0
                        /\ last_cubes[c + 1].triangles = 0

\* A meshlet with a cube all inside, a cube all outside of which one corner
\* has density zero, and a cube that emitted triangles.
C8_Witness ==
    /\ Len(visited) > 0
    /\ \E c \in 1..Len(last_cubes) : last_cubes[c].cube_index = 255
    /\ \E c \in 0..(Len(last_cubes) - 1) :
          \E d \in {CornerDensities(CellWorldPos(visited[Len(visited)], c))} :
              /\ last_cubes[c + 1].cube_index = 0
              /\ \E i \in 0..7 : d[i] = 0
    /\ \E c \in 1..Len(last_cubes) : last_cubes[c].triangles > 0

\* C11: in the returned Chunk vertices and normals hold 4 floats per emitted
\* vertex, the 4th float of every vertex is 1.0 and the 4th float of every
\* normal is 0.0, and len(vertices) = len(normals) = 4 * len(material_colors)
\* = 4 * len(colors).
C11_FourFloatsPerVertex ==
    Returned =>
        /\ Len(chunk.vertices) = 4 * 3 * SumSeq(tri_counts, Len(tri_counts))
        /\ Len(chunk.vertices) = Len(chunk.normals)
        /\ Len(chunk.vertices) = 4 * Len(chunk.material_colors)
        /\ Len(chunk.vertices) = 4 * Len(chunk.colors)
        /\ \A v \in 1..Len(chunk.colors) :
              /\ chunk.vertices[4 * v] = Q
              /\ chunk.normals[4 * v] = 0

\* A returned Chunk with vertices whose normals are not all the same.
C11_Witness ==
    /\ Returned
    /\ Len(chunk.colors) > 3
    /\ \E v \in 1..Len(chunk.colors) :
          chunk.normals[4 * v - 2] # chunk.normals[2]

\* C12: in the returned Chunk the lit colours are element for element the
\* material colours.
C12_LitColorsAreMaterialColors ==
    Returned =>
        /\ Len(chunk.colors) = Len(chunk.material_colors)
        /\ \A v \in 1..Len(chunk.colors) :
              chunk.colors[v] = chunk.material_colors[v]

\* A returned Chunk with vertices of two different material colours.
C12_Witness ==
    /\ Returned
    /\ \E v, w \in 1..Len(chunk.material_colors) :
          chunk.material_colors[v] # chunk.material_colors[w]
    /\ chunk.colors = chunk.material_colors

\* C13: one Command per meshlet, at every moment of the loops and in the
\* returned Chunk; every Command has instance_count 1 and first_instance 0,
\* and commands[i].vertex_count = vertex_counts[i].
C13_OneCommandPerMeshlet ==
    /\ Len(commands) = Len(visited)
    /\ Len(vertex_counts) = Len(visited)
    /\ \A i \in 1..Len(commands) :
          /\ commands[i].instance_count = 1
          /\ commands[i].first_instance = 0
          /\ commands[i].vertex_count = vertex_counts[i]
    /\ Returned =>
          /\ chunk.commands = commands
          /\ chunk.vertex_counts = vertex_counts
          /\ Len(chunk.commands) = s_size * s_size * s_size

\* A returned Chunk of eight Commands, some with vertices and some without.
C13_Witness ==
    /\ Returned
    /\ Len(chunk.commands) = 8
    /\ \E i, j \in 1..8 :
          /\ chunk.commands[i].vertex_count > 0
          /\ chunk.commands[j].vertex_count = 0

\* The cubes of the last meshlet that are neither all outside nor all inside
\* and have a non-zero edge mask.
NonTrivialCubes ==
    { c \in 1..Len(last_cubes) :
        /\ last_cubes[c].cube_index # 0
        /\ last_cubes[c].cube_index # 255
        /\ EDGE_TABLE_DATA[last_cubes[c].cube_index + 1] # 0 }

\* C14: the densities entry of every meshlet is the number of unit cubes of
\* its group whose cube_index is neither 0 nor 255 and whose edge mask is not
\* zero; it lies between 0 and 8^3.
C14_DensityCountsNonTrivialCubes ==
    /\ Len(densities) = Len(visited)
    /\ Len(visited) > 0 =>
          /\ Len(last_cubes) = COMPRESSION * COMPRESSION * COMPRESSION
          /\ densities[Len(densities)] = Cardinality(NonTrivialCubes)
    /\ \A i \in 1..Len(densities) :
          /\ 0 <= densities[i]
          /\ densities[i] <= COMPRESSION * COMPRESSION * COMPRESSION
    /\ Returned => chunk.densities = densities

\* A meshlet with cubes all inside, cubes all outside and cubes in between.
C14_Witness ==
    /\ Len(visited) > 0
    /\ Cardinality(NonTrivialCubes) > 1
    /\ \E c \in 1..Len(last_cubes) : last_cubes[c].cube_index = 255
    /\ \E c \in 1..Len(last_cubes) : last_cubes[c].cube_index = 0
    /\ densities[Len(densities)] > 1

\* The lattice with a flat boundary at y = resolution / 2: negative below,
\* positive at and above.
PlanarLattice ==
    /\ ValidResolution(size)
    /\ Len(voxels) = (size + 1) * (size + 1) * (size + 1)
    /\ \A i \in 1..Len(voxels) :
          LET yy == ((i - 1) \div (size + 1)) % (size + 1)
          IN  IF 2 * yy < size THEN voxels[i].density < 0
              ELSE voxels[i].density > 0

\* C15: for the lattice with a flat boundary at y = resolution / 2 every
\* emitted normal points predominantly along +y: its y component is positive
\* and no other component is larger in magnitude.
C15_PlanarNormalsPointUp ==
    (Returned /\ PlanarLattice) =>
        \A v \in 1..Len(chunk.colors) :
            /\ chunk.normals[4 * v - 2] > 0
            /\ chunk.normals[4 * v - 2] >= Abs(chunk.normals[4 * v - 3])
            /\ chunk.normals[4 * v - 2] >= Abs(chunk.normals[4 * v - 1])

\* C15 with the sign the code gives: for the same lattice every emitted
\* normal has a negative y component.
C15_PlanarNormalsPointDown ==
    (Returned /\ PlanarLattice) =>
        /\ Len(chunk.colors) > 0
        /\ \A v \in 1..Len(chunk.colors) : chunk.normals[4 * v - 2] < 0

\* The lattice index of local position p in a lattice of resolution sz.
LatticeIndex(p, sz) ==
    p[3] * (sz + 1) * (sz + 1) + p[2] * (sz + 1) + p[1] + 1

\* The local position, in the lattice of the call before, of the world point
\* that local position p of the present lattice stands for.
InPrev(p) ==
    << x * size + p[1] - prev.x * prev.size,
       y * size + p[2] - prev.y * prev.size,
       z * size + p[3] - prev.z * prev.size >>

\* C16: two calls of the same valid resolution whose lattices contain the
\* same world point, under SpecTwice: both lattices hold the same density and
\* the same packed colour there.
C16_SharedPointsAgree ==
    (calls = 2 /\ size = prev.size /\ ValidResolution(size)) =>
        \A px, py, pz \in 0..size :
            LET q == InPrev(<<px, py, pz>>)
            IN  (\A k \in 1..3 : 0 <= q[k] /\ q[k] <= prev.size) =>
                    voxels[LatticeIndex(<<px, py, pz>>, size)]
                        = prev.voxels[LatticeIndex(q, prev.size)]

\* C16 for the density alone.
C16_SharedPointsAgreeInDensity ==
    (calls = 2 /\ size = prev.size /\ ValidResolution(size)) =>
        \A px, py, pz \in 0..size :
            LET q == InPrev(<<px, py, pz>>)
            IN  (\A k \in 1..3 : 0 <= q[k] /\ q[k] <= prev.size) =>
                    voxels[LatticeIndex(<<px, py, pz>>, size)].density
                        = prev.voxels[LatticeIndex(q, prev.size)].density

\* The group with number i in the order z outermost, x innermost.
GroupAt(i, s) == << i % s, (i \div s) % s, i \div (s * s) >>

\* Every meshlet extracted on its own from the lattice and its group
\* coordinates, as a map over the groups.
Extracted ==
    Array([i \in 1..(s_size * s_size * s_size) |->
              Meshlet(voxels, size, GroupAt(i - 1, s_size), chunk_world_pos)])

RECURSIVE PrefixVertices(_, _)
\* The number of vertices of the meshlets 1 .. n of ms.
PrefixVertices(ms, n) ==
    IF n = 0 THEN 0 ELSE PrefixVertices(ms, n - 1) + Len(ms[n].positions)

RECURSIVE MergedVertices(_, _)
MergedVertices(ms, n) ==
    IF n = 0 THEN <<>>
    ELSE MergedVertices(ms, n - 1) \o Flat4(ms[n].positions, Q)

RECURSIVE MergedNormals(_, _)
MergedNormals(ms, n) ==
    IF n = 0 THEN <<>>
    ELSE MergedNormals(ms, n - 1) \o Flat4(ms[n].normals, 0)

RECURSIVE MergedColors(_, _)
MergedColors(ms, n) ==
    IF n = 0 THEN <<>> ELSE MergedColors(ms, n - 1) \o ms[n].colors

\* The Chunk merged from separately extracted meshlets in the order z, y, x,
\* first_vertex being the prefix sum of the vertex counts.
MergedChunk(ms) ==
    Chunk(Array([i \in 1..Len(ms) |->
                   Command(Len(ms[i].positions), 1, PrefixVertices(ms, i - 1), 0)]),
          Array([i \in 1..Len(ms) |-> Len(ms[i].positions)]),
          Array([i \in 1..Len(ms) |-> ms[i].density]),
          MergedVertices(ms, Len(ms)),
          MergedNormals(ms, Len(ms)),
          MergedColors(ms, Len(ms)),
          MergedColors(ms, Len(ms)))

\* C17: what a meshlet contributes depends only on the lattice and its group
\* coordinates, so the Chunk merged from meshlets extracted independently of
\* each other, with first_vertex from a prefix sum, is the Chunk that the
\* sequential scan returns.
C17_MergeOfMeshletsIsTheScan ==
    Returned => \E ms \in {Extracted} : chunk = MergedChunk(ms)

\* A returned Chunk of eight meshlets of which two in a row have surface
\* cubes and vertices.
C17_Witness ==
    /\ Returned
    /\ Len(chunk.commands) = 8
    /\ \E i \in 1..7 :
          /\ chunk.densities[i] > 0 /\ chunk.densities[i + 1] > 0
          /\ chunk.vertex_counts[i] > 0 /\ chunk.vertex_counts[i + 1] > 0

\* The density stored at corner i of the cube at lattice position p, corner i
\* being p + CUBE_VERTICES[i].
CornerSample(p, i) ==
    voxels[LatticeIndex(<< p[1] + CUBE_VERTICES[i + 1][1],
                           p[2] + CUBE_VERTICES[i + 1][2],
                           p[3] + CUBE_VERTICES[i + 1][3] >>, size)].density

\* C20: for every processed cube, cube_index is the 8-bit value whose bit i
\* is set if and only if the density at corner i (by CUBE_VERTICES) is
\* strictly less than 0; a corner of density exactly 0 has its bit clear.
C20_CubeIndexBits ==
    Len(visited) > 0 =>
        \A c \in 0..(Len(last_cubes) - 1) :
            \E p \in {CellWorldPos(visited[Len(visited)], c)} :
                /\ 0 <= last_cubes[c + 1].cube_index
                /\ last_cubes[c + 1].cube_index <= 255
                /\ \A i \in 0..7 :
                      (Bit(last_cubes[c + 1].cube_index, i) = 1)
                          <=> (CornerSample(p, i) < 0)

\* A meshlet with a cube that has a corner of density exactly 0 next to
\* corners inside and outside, so that its index is neither 0 nor 255.
C20_Witness ==
    /\ Len(visited) > 0
    /\ \E c \in 0..(Len(last_cubes) - 1) :
          \E p \in {CellWorldPos(visited[Len(visited)], c)} :
              /\ last_cubes[c + 1].cube_index \notin {0, 255}
              /\ \E i \in 0..7 :
                    /\ CornerSample(p, i) = 0
                    /\ Bit(last_cubes[c + 1].cube_index, i) = 0

-----------------------------------------------------------------------------
\* Properties of interpolate_vertex, under SpecInterp.

\* C9: with density1 = density2 (both zero included) interpolate_vertex
\* returns p1 exactly; and whenever the division by density2 - density1 is
\* evaluated, the denominator is at least 0.00001 in magnitude, so that the
\* result is finite.
C9_EqualDensitiesReturnFirst ==
    pc = "interpolated" =>
        /\ args.val1 = args.val2 => result.out = args.p1
        /\ result.branch = "mu" => Abs(result.denominator) >= EPS
        /\ \A k \in 1..3 : Abs(result.out[k]) < NonFinite

\* A call with two equal densities beyond the guards around zero and two
\* different endpoints.
C9_Witness ==
    /\ pc = "interpolated"
    /\ args.val1 = args.val2
    /\ Abs(args.val1) >= EPS
    /\ args.p1 # args.p2
    /\ result.out = args.p1

-----------------------------------------------------------------------------
\* Properties of the safe accessors, under SpecRead.

\* Every coordinate of the position read is within [0, resolution].
InLattice == \A k \in 1..3 : 0 <= args[k] /\ args[k] <= size

\* The sample stored at index z*size*size + y*size + x, size = resolution + 1.
Stored ==
    voxels[args[3] * (size + 1) * (size + 1) + args[2] * (size + 1) + args[1] + 1]

\* C10: at every signed position the safe accessors return the sentinels
\* (density 1.0, colour 0x808080FF) if and only if a coordinate is outside
\* [0, resolution]; at a position inside they return the density and the
\* colour stored at index z*size*size + y*size + x.
C10_SentinelIffOutside ==
    pc = "read_done" =>
        /\ ~InLattice => /\ result.density = SentinelDensity
                         /\ result.color = SentinelColor
        /\ InLattice => /\ result.density = Stored.density
                        /\ result.color = Stored.color
        /\ (result.density = SentinelDensity /\ result.color = SentinelColor)
              <=> ~InLattice

\* A read on the upper face of the lattice, where the stored density is 1.0.
C10_Witness ==
    /\ pc = "read_done"
    /\ InLattice
    /\ \E k \in 1..3 : args[k] = size
    /\ result.density = One
    /\ result.color # SentinelColor

\* C18: no lattice read through the safe accessors, at the positions
\* generate_mesh passes (cube corners and their axis neighbours, up to Margin
\* beyond the lattice), uses an index outside [0, (resolution+1)^3): only
\* positions that passed the bounds test reach voxels[index], and the call
\* never aborts.
C18_ReadsAreInRange ==
    /\ pc # "aborted"
    /\ pc = "read_done" =>
          /\ Len(voxels) = (size + 1) * (size + 1) * (size + 1)
          /\ \A i \in result.reads :
                0 <= i /\ i < (size + 1) * (size + 1) * (size + 1)
          /\ result.reads # {} => InLattice
          /\ InLattice => result.reads = {LatticeIndex(args, size) - 1}

\* A read of the last sample of the lattice, at the corner farthest from the
\* origin.
C18_Witness ==
    /\ pc = "read_done"
    /\ args = <<size, size, size>>
    /\ result.reads = {Len(voxels) - 1}

-----------------------------------------------------------------------------
\* Properties of calls far from the origin, under SpecFar.

\* The chunk world offset of the present call leaves the i32 range.
OffsetOverflows ==
    \/ MulOverflows(x, size) \/ MulOverflows(y, size) \/ MulOverflows(z, size)

\* C19: a call whose 32-bit computations overflow is rejected: no call that
\* returns a Chunk has computed a chunk world offset chunk_coordinate *
\* resolution that left the i32 range and wrapped.
C19_NoWrappedOffsetInReturnedChunk ==
    Returned => ~OffsetOverflows

\* C19, read on the result: a call that returns a Chunk with vertices has
\* them within its own chunk, chunk_coordinate * resolution away from the
\* origin along x.
C19_VerticesLieInTheirChunk ==
    (Returned /\ Len(chunk.vertices) > 0 /\ x > 0) => chunk.vertices[1] >= Q


-----------------------------------------------------------------------------
\* Properties of the body of the cell loops, under SpecCube.

\* The two corners that edge e joins.
EdgeEnds(e) == EDGE_VERTICES[e + 1]

\* The endpoint of edge e with the smaller density in cube_values; the
\* second one when the densities are equal.
MoreNegativeEnd(cube_values, e) ==
    IF cube_values[EdgeEnds(e)[1]] < cube_values[EdgeEnds(e)[2]]
    THEN EdgeEnds(e)[1] ELSE EdgeEnds(e)[2]

\* The other endpoint of edge e.
OtherEnd(e, v) == IF EdgeEnds(e)[1] = v THEN EdgeEnds(e)[2] ELSE EdgeEnds(e)[1]

\* The colour the lattice holds at corner v of the cube.
LatticeColorAt(v) == get_voxel_color(voxels, CornerPos(args.world_pos, v), size)

\* C21: for every edge flagged in the cube's edge mask, the colour written to
\* color_list is the lattice colour of the endpoint with the more negative
\* density; that endpoint's density is below 0 and strictly below the other
\* endpoint's, and the colour is not that of the other, outside, corner.
C21_EdgeColorIsInsideCorner ==
    pc = "cube_done" =>
        \A e \in result.flagged :
            \E m \in {MoreNegativeEnd(result.cube_values, e)} :
                /\ result.cube_values[m] < 0
                /\ result.cube_values[m] < result.cube_values[OtherEnd(e, m)]
                /\ result.cube_values[OtherEnd(e, m)] >= 0
                /\ result.lists[e + 1].c = LatticeColorAt(m)
                /\ result.lists[e + 1].c # LatticeColorAt(OtherEnd(e, m))

\* A cube with a flagged edge whose inside corner is the edge's first corner
\* and one whose inside corner is its second, with unequal magnitudes.
C21_Witness ==
    /\ pc = "cube_done"
    /\ args.profile = "graded"
    /\ \E e \in result.flagged :
          MoreNegativeEnd(result.cube_values, e) = EdgeEnds(e)[1]
    /\ \E e \in result.flagged :
          /\ MoreNegativeEnd(result.cube_values, e) = EdgeEnds(e)[2]
          /\ result.lists[e + 1].c \in { result.out.colors[j] :
                                           j \in 1..Len(result.out.colors) }


\* The number of iterations of walk that ended as outcome.
CountOutcome(walk, outcome) ==
    Cardinality({j \in 1..Len(walk) : walk[j].outcome = outcome})

\* C22: the triangle walk of every row of the table, and of every cube that
\* is walked, ends after at most 6 iterations and emits at most 5 triangles,
\* 15 vertices.
C22_WalkEndsWithinSixIterations ==
    /\ \E row \in {WalkIterations(BaseTriangleIndex(args.config), 0)} :
          /\ Len(row) <= 6
          /\ CountOutcome(row, "emit") <= 5
    /\ pc = "cube_done" =>
          /\ Len(result.walk) <= 6
          /\ CountOutcome(result.walk, "emit") = result.out.triangles
          /\ result.out.triangles <= 5
          /\ Len(result.out.positions) <= 15
          /\ Len(result.out.normals) <= 15
          /\ Len(result.out.colors) <= 15

\* A cube whose walk takes all 6 iterations and emits 5 triangles.
C22_Witness ==
    /\ pc = "cube_done"
    /\ Len(result.walk) = 6
    /\ result.out.triangles = 5
    /\ Len(result.out.positions) = 15


\* C24: bit e of EDGE_TABLE_DATA[c] is set if and only if the two corners
\* that EDGE_VERTICES[e] joins have different inside bits in c, for every
\* configuration c and edge e; and every edge that is interpolated joins one
\* corner with density < 0 and one with density >= 0.
C24_EdgeMaskIsSignChange ==
    /\ \A e \in 0..11 :
          (Bit(EDGE_TABLE_DATA[args.config + 1], e) = 1)
              <=> (Bit(args.config, EdgeEnds(e)[1])
                      # Bit(args.config, EdgeEnds(e)[2]))
    /\ pc = "cube_done" =>
          /\ result.cube_index = args.config
          /\ \A e \in result.flagged :
                \/ /\ result.cube_values[EdgeEnds(e)[1]] < 0
                   /\ result.cube_values[EdgeEnds(e)[2]] >= 0
                \/ /\ result.cube_values[EdgeEnds(e)[1]] >= 0
                   /\ result.cube_values[EdgeEnds(e)[2]] < 0

\* A cube with interpolated edges of both orientations, an edge that is not
\* interpolated, and an interpolated edge with density 0.0 at its outside end.
C24_Witness ==
    /\ pc = "cube_done"
    /\ \E e \in result.flagged : result.cube_values[EdgeEnds(e)[1]] < 0
    /\ \E e \in result.flagged : result.cube_values[EdgeEnds(e)[2]] < 0
    /\ \E e \in result.flagged : \E k \in 1..2 :
          result.cube_values[EdgeEnds(e)[k]] = 0
    /\ \E e \in 0..11 : e \notin result.flagged

\* The iterations of walk that emitted a triangle, in order.
Emitting(walk) == SelectSeq(walk, LAMBDA it : it.outcome = "emit")

\* The edges that appear in the triangles walk emitted.
EmittedEdges(walk) ==
    { walk[j].edges[k] : j \in {i \in 1..Len(walk) : walk[i].outcome = "emit"},
                         k \in 1..3 }

\* C25: for every configuration c in 1..254, every entry of the triangle
\* table's row c before its first -1 is an edge 0..11 whose bit is set in
\* EDGE_TABLE_DATA[c]; and every vertex, normal and colour of an emitted
\* triangle is the entry of vertex_list, normal_list, color_list that the
\* interpolation step wrote for a flagged edge.
C25_EmittedEdgesAreFlagged ==
    /\ args.config \in 1..254 =>
          \A k \in 0..15 :
              (\A j \in 0..k :
                    TriangleTable(BaseTriangleIndex(args.config) + j) # -1)
              => \E entry \in {TriangleTable(BaseTriangleIndex(args.config) + k)} :
                    /\ entry \in 0..11
                    /\ Bit(EDGE_TABLE_DATA[args.config + 1], entry) = 1
    /\ pc = "cube_done" =>
          \E its \in {Emitting(result.walk)} :
              /\ Len(result.out.positions) = 3 * Len(its)
              /\ Len(result.out.normals) = 3 * Len(its)
              /\ Len(result.out.colors) = 3 * Len(its)
              /\ \A t \in 1..Len(its) : \A k \in 1..3 :
                    \E e \in {its[t].edges[k]} :
                        /\ e \in result.flagged
                        /\ result.out.positions[3 * (t - 1) + k]
                              = result.lists[e + 1].v
                        /\ result.out.normals[3 * (t - 1) + k]
                              = result.lists[e + 1].n
                        /\ result.out.colors[3 * (t - 1) + k]
                              = result.lists[e + 1].c
                        /\ result.lists[e + 1].c # Rgba(0, 0, 0, 0)

\* A cube that emits triangles, leaves some of the 12 slots unwritten, and
\* uses every slot it wrote.
C25_Witness ==
    /\ pc = "cube_done"
    /\ result.out.triangles >= 2
    /\ \E e \in 0..11 : e \notin result.flagged
    /\ EmittedEdges(result.walk) = result.flagged

\* Entry k of row c of the triangle table; a row has 16 entries.
RowEntry(c, k) == TRIANGLE_TABLE_DATA[16 * c + k + 1]

\* The values tri_idx takes.
WalkPositions == {0, 3, 6, 9, 12, 15}

\* C29: the triangle walk is reached with cube_index in 1..254 only; each of
\* its iterations has tri_idx in {0, 3, 6, 9, 12, 15} and reads the table at
\* cube_index * 16 + tri_idx + {0, 1, 2}, all below the table's length 4096,
\* so no read aborts the call; every row holds a -1 at a multiple of 3; the
\* walk ends on the sentinel test, and every triple it emits lies in the
\* cube's own row.
C29_TableReadsStayInTable ==
    /\ pc # "aborted"
    /\ Len(TRIANGLE_TABLE_DATA) = 4096
    /\ \E k \in WalkPositions : RowEntry(args.config, k) = -1
    /\ (pc = "cube_done" /\ result.walk # <<>>) =>
          /\ result.cube_index \in 1..254
          /\ result.walk[Len(result.walk)].outcome = "break"
          /\ \A j \in 1..Len(result.walk) :
                \E it \in {result.walk[j]} :
                    /\ it.tri_idx \in WalkPositions
                    /\ it.reads = << result.cube_index * 16 + it.tri_idx,
                                     result.cube_index * 16 + it.tri_idx + 1,
                                     result.cube_index * 16 + it.tri_idx + 2 >>
                    /\ \A k \in 1..3 : it.reads[k] < Len(TRIANGLE_TABLE_DATA)
                    /\ it.outcome \in {"emit", "break"}
                    /\ it.outcome = "emit" =>
                          it.reads[3] <= result.cube_index * 16 + 15
    /\ (pc = "cube_done" /\ result.walk = <<>>) =>
          result.cube_index \in {0, 255}

\* A walk whose last iteration, at tri_idx = 15, reads its second and third
\* entry from the following row and ends on the sentinel.
C29_Witness ==
    /\ pc = "cube_done"
    /\ result.walk # <<>>
    /\ \E it \in {result.walk[Len(result.walk)]} :
          /\ it.tri_idx = 15
          /\ it.reads[2] = (result.cube_index + 1) * 16
          /\ it.outcome = "break"

-----------------------------------------------------------------------------
\* Further properties of generate_mesh, under Spec.

\* The i-th normal of the normals buffer, without its padding.
NormalAt(i) ==
    << all_normals[4 * i - 3], all_normals[4 * i - 2], all_normals[4 * i - 1] >>

\* The cube at the origin has one corner that falls back to the up-vector
\* and a neighbour across a flagged edge whose normal is the opposite one,
\* with densities of equal magnitude (mu = 0.5).
NormalsCancel ==
    /\ size >= COMPRESSION
    /\ calculate_gradient(voxels, <<0, 0, 0>>, size) = UpVector
    /\ calculate_gradient(voxels, <<0, 1, 0>>, size) = <<0, 0 - Q, 0>>
    /\ get_voxel_density_safe(voxels, <<0, 0, 0>>, size) < 0
    /\ get_voxel_density_safe(voxels, <<0, 1, 0>>, size)
           = 0 - get_voxel_density_safe(voxels, <<0, 0, 0>>, size)

\* C23: in a call with a valid resolution, every normal written to the
\* normals buffer is a non-zero vector.
C23_WrittenNormalsAreNonZero ==
    ValidResolution(size) =>
        \A i \in 1..(Len(all_normals) \div 4) : NormalAt(i) # <<0, 0, 0>>

\* C23, away from the cancelling pair: when the corner normals at the origin
\* do not cancel, every normal written is non-zero.
C23_NonZeroUnlessCancelled ==
    (pc # "idle" /\ ~NormalsCancel) =>
        \A i \in 1..(Len(all_normals) \div 4) : NormalAt(i) # <<0, 0, 0>>


\* The points of the lattice [0, size]^3.
LatticePoints == (0..size) \X (0..size) \X (0..size)

\* C26: for every point of the lattice, the y recovered from the point's
\* flat index as (idx / (size + 1)) % (size + 1) is the point's y, and the
\* colour stored for the point is the colour of that y; the flat index maps
\* the lattice one-to-one onto 0 .. (size + 1)^3 - 1, the indices of voxels.
C26_IndexAndRecoveredYAgree ==
    pc \in {"loop", "done"} =>
        /\ Len(voxels) = (size + 1) * (size + 1) * (size + 1)
        /\ \A p \in LatticePoints :
              \E idx \in {VoxelIndex(p, size)} :
                  /\ idx \in 0..(Len(voxels) - 1)
                  /\ LatticeY(idx, size + 1) = p[2]
                  /\ idx % (size + 1) = p[1]
                  /\ idx \div ((size + 1) * (size + 1)) = p[3]
                  /\ get_voxel_color(voxels, p, size)
                        = VoxelColor(p[2] * (size + 1),
                                     get_voxel_density(voxels, p, size), size + 1)
        /\ Cardinality({ VoxelIndex(p, size) : p \in LatticePoints }) = Len(voxels)

\* A returned call on a lattice with an inside point whose three coordinates
\* differ, and inside points of different y with different colours.
C26_Witness ==
    /\ pc = "done"
    /\ ValidResolution(size)
    /\ \E p \in LatticePoints :
          /\ p[1] # p[2] /\ p[2] # p[3] /\ p[1] # p[3]
          /\ get_voxel_density(voxels, p, size) < 0
          /\ \E q \in LatticePoints :
                /\ get_voxel_density(voxels, q, size) < 0
                /\ get_voxel_color(voxels, q, size) # get_voxel_color(voxels, p, size)


\* C27: for every meshlet, densities[i] is zero if and only if
\* vertex_counts[i] is zero, and 3 * densities[i] <= vertex_counts[i]
\* <= 15 * densities[i]: every configuration 1..254 has a non-zero edge mask
\* and a row of 1 to 5 triangles, so every cube that is counted emits 3 to 15
\* vertices and every cube that is not counted emits none.
C27_OccupancyBoundsVertexCount ==
    /\ \A c \in 1..254 :
          /\ EDGE_TABLE_DATA[c + 1] # 0
          /\ Len(TriangleWalk(BaseTriangleIndex(c), 0)) \in 1..5
    /\ Len(densities) = Len(vertex_counts)
    /\ \A i \in 1..Len(densities) :
          /\ densities[i] = 0 <=> vertex_counts[i] = 0
          /\ 3 * densities[i] <= vertex_counts[i]
          /\ vertex_counts[i] <= 15 * densities[i]
    /\ Len(visited) > 0 =>
          \A c \in 1..Len(last_cubes) :
              IF last_cubes[c].cube_index \in {0, 255}
              THEN last_cubes[c].vertices = 0
              ELSE last_cubes[c].vertices \in {3, 6, 9, 12, 15}
    /\ Returned =>
          /\ chunk.densities = densities
          /\ chunk.vertex_counts = vertex_counts

\* A returned Chunk with an empty meshlet and a meshlet whose vertex count
\* lies strictly between the two bounds.
C27_Witness ==
    /\ Returned
    /\ \E i \in 1..Len(chunk.densities) :
          chunk.densities[i] = 0 /\ chunk.vertex_counts[i] = 0
    /\ \E i \in 1..Len(chunk.densities) :
          /\ chunk.densities[i] > 0
          /\ 3 * chunk.densities[i] < chunk.vertex_counts[i]
          /\ chunk.vertex_counts[i] < 15 * chunk.densities[i]


\* The positions the gradient estimate reads around lattice point p
\* (mesh.rs 355-360).
GradientReads(p) ==
    { << p[1] + 1, p[2], p[3] >>, << p[1] - 1, p[2], p[3] >>,
      << p[1], p[2] + 1, p[3] >>, << p[1], p[2] - 1, p[3] >>,
      << p[1], p[2], p[3] + 1 >>, << p[1], p[2], p[3] - 1 >> }

\* C28: the 8 corners of every cube of every meshlet processed lie in the
\* lattice [0, size]^3: cube_values and cube_colors never hold the sentinel
\* of an out-of-lattice read, and every corner is read at an index of voxels.
C28_CubeCornersLieInTheLattice ==
    /\ s_size * COMPRESSION <= size
    /\ \A g \in 1..Len(visited) :
          \A c \in 0..(COMPRESSION * COMPRESSION * COMPRESSION - 1) :
              \E p \in {CellWorldPos(visited[g], c)} :
                  \A i \in 0..7 :
                      /\ ~OutOfBounds(CornerPos(p, i), size)
                      /\ SafeReads(CornerPos(p, i), size) # {}
                      /\ \A k \in 1..3 : CornerPos(p, i)[k] \in 0..size

\* A returned call with several meshlets in which a cube has a corner on a
\* last plane of the lattice, and a gradient read around that corner falls
\* outside the lattice and gets the sentinels.
C28_Witness ==
    /\ Returned
    /\ Len(visited) > 1
    /\ \E c \in 0..(COMPRESSION * COMPRESSION * COMPRESSION - 1) :
          \E p \in {CellWorldPos(visited[Len(visited)], c)} :
              \E i \in 0..7 :
                  /\ \E k \in 1..3 : CornerPos(p, i)[k] = size
                  /\ \E q \in GradientReads(CornerPos(p, i)) :
                        /\ OutOfBounds(q, size)
                        /\ get_voxel_density_safe(voxels, q, size) = SentinelDensity
                        /\ get_voxel_color_safe(voxels, q, size) = SentinelColor

=============================================================================
